---- MODULE Spec2Model ----
(***************************************************************************)
(* Model of the Cloud Foundry attributes processor:                        *)
(*   - internal/cf/cf.go : the platform client with its TTL cache          *)
(*     (bigcache), getApp / getSpace / getOrg and the Get* accessors;      *)
(*   - the processor (cfAttributesProcessor): processMetrics / processLogs *)
(*     / processTraces, processResource, processAppID, processSpaceID,     *)
(*     addSpaceMetadata, addOrgMetadata.                                   *)
(*                                                                         *)
(* Time is counted in units of 30 seconds.  The cache is configured in     *)
(* Client.newCache with LifeWindow = cacheTTL and CleanWindow = 1 minute:  *)
(* an entry is expired when its age exceeds the life window, expired       *)
(* entries are removed by the periodic clean-up that runs every clean      *)
(* window in a goroutine of its own, and cache.Get returns whatever entry  *)
(* is stored under the key.  HardMaxCacheSize is 0, so cache.Set never     *)
(* rejects an entry.                                                       *)
(***************************************************************************)
EXTENDS Integers, Sequences, FiniteSets, TLC

VARIABLES
    config,     \* the processor's Config: Extract flags and CacheTTL
    now,        \* the clock
    cleanDue,   \* the clean-up ticker has fired and the sweep has not run yet
    lastClean,  \* time of the last clean-up sweep (-1: none yet)
    cache,      \* Client.cache: objCacheName -> entry or NoEntry
    platform,   \* the Cloud Foundry API: objCacheName -> version of the object
    changes,    \* number of changes made upstream so far
    stored,     \* history: objCacheName -> the object a resolve has last put, and when
    last,       \* history: what the last getApp/getSpace/getOrg call did
                \* (prior: what was stored under its key when it was made)
    pc,         \* position of the goroutine running processResource
    pos,        \* index of the resource being processed in the batch (0: none)
    resource,   \* attributes of the resource being processed
    spaceID,    \* local variable spaceID of processAppID / processSpaceID
    orgID,      \* local variable orgID of processAppID / processSpaceID
    run,        \* history of the current processResource / batch call
    cloudFoundry, \* Config.CloudFoundry: Endpoint and the Auth block
    validateRet,  \* what Config.Validate returned ("": not called)
    startRet,     \* what Start returned ("": not called)
    shutdownRet,  \* what the last Shutdown returned ("": not called)
    cfCli,        \* cfap.cfCli: the client, with the context it was built with
    cancel,       \* cfap.cancel: the context it cancels (Nil: a nil func)
    done,         \* the contexts that have been cancelled
    cleaner,      \* the clean-up goroutine of the cache
    batch,        \* a batch call seen with its context: state, fetch outcome
    workers,      \* goroutines enriching resources concurrently
    held,         \* the object a caller of the client holds, and what it did to it
    flight,       \* resolves of one object running concurrently, step by step
    apps,         \* the observer's g.apps
    obs,          \* the observer's last call and what it returned
    g,            \* the observer's fields ctx, cancel, cf, containers, once
    cancelled,    \* the observer's contexts that have been cancelled
    appMu,        \* g.appMu: the goroutine holding it (Nil: free)
    starter,      \* the goroutine calling Start on the observer
    task,         \* the goroutine once.Do has started: the periodic app sync
    listers,      \* the goroutines calling ListEndpoints
    pending,      \* the goroutines `go g.updateContainerCache(infos)` not run yet
    hist          \* history of the observer's calls

vars == <<config, now, cleanDue, lastClean, cache, platform, changes, stored,
          last, pc, pos, resource, spaceID, orgID, run,
          cloudFoundry, validateRet, startRet, shutdownRet, cfCli, cancel, done,
          cleaner, batch, workers, held, flight, apps, obs,
          g, cancelled, appMu, starter, task, listers, pending, hist>>

cacheVars == <<now, cleanDue, lastClean, cache, platform, changes, stored, last>>
procVars == <<pc, pos, resource, spaceID, orgID, run>>
lifeVars == <<cloudFoundry, validateRet, startRet, shutdownRet, cfCli, cancel,
              done, cleaner, batch>>
syncVars == <<g, cancelled, appMu, starter, task, listers, pending, hist>>
otherVars == <<held, flight, apps, obs, syncVars>>

(***************************************************************************)
(* Bounds of the model.                                                    *)
(***************************************************************************)
MaxTime == 2        \* the clock stops here
MaxTTL == 1         \* cache_ttl values 0..MaxTTL are configured
MaxChanges == 1     \* upstream objects are changed at most this often
MaxBatch == 2       \* resources per batch
MaxResolvers == 2   \* goroutines resolving one object at the same time
MaxPortsLen == 5    \* characters in a network.ports property
MaxStarts == 2      \* calls of Start on one observer
MaxListers == 2     \* goroutines calling ListEndpoints, one call each

(***************************************************************************)
(* Program constants (in units of 30 seconds).                             *)
(***************************************************************************)
Minute == 2

bigcacheCleanWindow == 2

bigcacheShards == 1024

defaultCacheTTL == 10 * Minute

defaultAppIDAttrKeyAssociation == "app_id"

Nil == "<nil>"
NoEntry == [data |-> <<>>, ts |-> -1]
NoObject == [kind |-> Nil]
NoStored == [obj |-> NoObject, ts |-> -1]

Kinds == {"app", "space", "org"}
IDs == {"g1"}

\* (mutation of objCacheName: the kind is not part of the key)
objCacheNameNoKind(kind, id) == "obj:" \o id

\* objCacheName := "app:" + appID  (and "space:", "org:")
objCacheName(kind, id) == kind \o ":" \o id

Keys == {objCacheName(k, i) : k \in Kinds, i \in IDs}

(***************************************************************************)
(* The objects the Cloud Foundry API serves.  Version 1 is the object as   *)
(* first created, version 2 the object after a user has renamed and        *)
(* relabelled it, version 3 carries a label whose value is null (the       *)
(* Labels map is a map[string]*string).                                    *)
(***************************************************************************)
Versions == {1, 2, 3}

Timestamp(d) == [date |-> d, clock |-> "10:00:00", zone |-> "+0000 UTC"]

Labels(kind, v) ==
    CASE v = 1 -> [k \in {"team"} |-> kind \o "-x"]
      [] v = 2 -> [k \in {"team", "tier"} |-> kind \o "-z"]
      [] OTHER -> [k \in {"team"} |-> Nil]

Annotations(kind, v) == [k \in {"owner"} |-> kind \o "-o" \o ToString(v)]

CfObject(kind, id, v) ==
    CASE kind = "app" ->
           [kind |-> "app", GUID |-> id,
            Name |-> "svc" \o ToString(v),
            State |-> IF v = 1 THEN "STARTED" ELSE "STOPPED",
            LifecycleType |-> "buildpack",
            Buildpacks |-> <<"java", "node">>,
            Stack |-> "cflinuxfs4",
            CreatedAt |-> Timestamp("2024-01-01"),
            UpdatedAt |-> Timestamp("2024-01-0" \o ToString(v)),
            Labels |-> Labels(kind, v),
            Annotations |-> Annotations(kind, v),
            Parent |-> "g1"]
      [] kind = "space" ->
           [kind |-> "space", GUID |-> id,
            Name |-> "dev" \o ToString(v),
            Labels |-> Labels(kind, v),
            Annotations |-> Annotations(kind, v),
            Parent |-> "g1"]
      [] OTHER ->
           [kind |-> "org", GUID |-> id,
            Name |-> "acme" \o ToString(v),
            Labels |-> Labels(kind, v),
            Annotations |-> Annotations(kind, v)]

Upstream(kind, id, plat) == CfObject(kind, id, plat[objCacheName(kind, id)])

(***************************************************************************)
(* serialize / deserialize: the gob encoding of a resource.  The encoded   *)
(* form is the type followed by the field values in the order of the       *)
(* struct; encoding a map that holds a nil pointer fails                   *)
(* ("gob: encodeReflectValue: nil element"), decoding checks the type.     *)
(***************************************************************************)
Fields(kind) ==
    CASE kind = "app" -> <<"kind", "GUID", "Name", "State", "LifecycleType",
                           "Buildpacks", "Stack", "CreatedAt", "UpdatedAt",
                           "Labels", "Annotations", "Parent">>
      [] kind = "space" -> <<"kind", "GUID", "Name", "Labels", "Annotations",
                             "Parent">>
      [] OTHER -> <<"kind", "GUID", "Name", "Labels", "Annotations">>

HasNilElement(m) == \E k \in DOMAIN m : m[k] = Nil

\* (mutation of serialize: the name is lost in the encoding)
serializeLossy(val) ==
    [err |-> "",
     data |-> [i \in 1..Len(Fields(val.kind)) |->
                 IF Fields(val.kind)[i] = "Name" THEN "?"
                 ELSE val[Fields(val.kind)[i]]]]

serialize(val) ==
    IF HasNilElement(val.Labels) \/ HasNilElement(val.Annotations)
    THEN [err |-> "gob: nil element", data |-> <<>>]
    ELSE [err |-> "",
          data |-> [i \in 1..Len(Fields(val.kind)) |-> val[Fields(val.kind)[i]]]]

deserialize(data, kind) ==
    IF Len(data) # Len(Fields(kind)) \/ data[1] # kind
    THEN [err |-> "gob: type mismatch", result |-> NoObject]
    ELSE [err |-> "",
          result |-> [f \in {Fields(kind)[i] : i \in 1..Len(data)} |->
                        data[CHOOSE i \in 1..Len(data) : Fields(kind)[i] = f]]]

(***************************************************************************)
(* The cache (bigcache configured by Client.newCache).                     *)
(***************************************************************************)
cacheGet(c, key) == [found |-> c[key] # NoEntry, value |-> c[key].data]

\* (mutation of cacheSet: the entry is not written)
cacheSetDropped(c, key, data, t) == c

cacheSet(c, key, data, t) == [c EXCEPT ![key] = [data |-> data, ts |-> t]]

\* (mutation of isExpired: an entry expires one time unit early)
isExpiredEarly(e, t, ttl) == t - e.ts >= ttl

\* LifeWindow: cfCli.cacheTTL
isExpired(e, t, ttl) == t - e.ts > ttl

\* (mutation of cleanUp: the sweep removes nothing)
cleanUpNothing(c, t, ttl) == c

\* the sweep that runs every CleanWindow
cleanUp(c, t, ttl) ==
    [k \in DOMAIN c |->
        IF c[k] # NoEntry /\ isExpired(c[k], t, ttl) THEN NoEntry ELSE c[k]]

\* (mutation of getObject: the object is fetched on every call and the
\* cache is neither read nor written)
getObjectNoStore(kind, id, c, plat, t, ok) ==
    IF ok
    THEN [obj |-> Upstream(kind, id, plat), err |-> "", cache |-> c,
          calls |-> 1, fetched |-> Upstream(kind, id, plat), put |-> FALSE]
    ELSE [obj |-> NoObject, err |-> "could not retrieve", cache |-> c,
          calls |-> 1, fetched |-> NoObject, put |-> FALSE]

\* (mutation of getObject: a hit hands out the object the caller already
\* holds for the key, not a newly decoded one)
getObjectAliased(kind, id, c, plat, t, ok) ==
    LET key == objCacheName(kind, id)
        hit == deserialize(cacheGet(c, key).value, kind)
        o == Upstream(kind, id, plat)
    IN  IF cacheGet(c, key).found
        THEN [obj |-> IF held.key = key /\ held.obj # NoObject /\ hit.err = ""
                      THEN held.obj ELSE hit.result,
              err |-> hit.err, cache |-> c,
              calls |-> 0, fetched |-> NoObject, put |-> FALSE]
        ELSE IF ~ok
        THEN [obj |-> NoObject, err |-> "could not retrieve", cache |-> c,
              calls |-> 1, fetched |-> NoObject, put |-> FALSE]
        ELSE IF serialize(o).err # ""
        THEN [obj |-> NoObject, err |-> "could not encode", cache |-> c,
              calls |-> 1, fetched |-> o, put |-> FALSE]
        ELSE [obj |-> o, err |-> "", cache |-> cacheSet(c, key, serialize(o).data, t),
              calls |-> 1, fetched |-> o, put |-> TRUE]

\* (mutation of getObject: a failed call of the platform API is repeated,
\* and the second attempt succeeds)
getObjectRetry(kind, id, c, plat, t, ok) ==
    LET key == objCacheName(kind, id)
        hit == deserialize(cacheGet(c, key).value, kind)
        o == Upstream(kind, id, plat)
    IN  IF cacheGet(c, key).found
        THEN [obj |-> hit.result, err |-> hit.err, cache |-> c,
              calls |-> 0, fetched |-> NoObject, put |-> FALSE]
        ELSE IF serialize(o).err # ""
        THEN [obj |-> NoObject, err |-> "could not encode", cache |-> c,
              calls |-> IF ok THEN 1 ELSE 2, fetched |-> o, put |-> FALSE]
        ELSE [obj |-> o, err |-> "", cache |-> cacheSet(c, key, serialize(o).data, t),
              calls |-> IF ok THEN 1 ELSE 2, fetched |-> o, put |-> TRUE]

\* (mutation of getObject: when the encoding fails, an empty entry is left
\* under the key)
getObjectPartialPut(kind, id, c, plat, t, ok) ==
    LET key == objCacheName(kind, id)
        hit == deserialize(cacheGet(c, key).value, kind)
        o == Upstream(kind, id, plat)
    IN  IF cacheGet(c, key).found
        THEN [obj |-> hit.result, err |-> hit.err, cache |-> c,
              calls |-> 0, fetched |-> NoObject, put |-> FALSE]
        ELSE IF ~ok
        THEN [obj |-> NoObject, err |-> "could not retrieve", cache |-> c,
              calls |-> 1, fetched |-> NoObject, put |-> FALSE]
        ELSE IF serialize(o).err # ""
        THEN [obj |-> NoObject, err |-> "could not encode",
              cache |-> cacheSet(c, key, <<>>, t),
              calls |-> 1, fetched |-> o, put |-> FALSE]
        ELSE [obj |-> o, err |-> "", cache |-> cacheSet(c, key, serialize(o).data, t),
              calls |-> 1, fetched |-> o, put |-> TRUE]

\* (mutation of getObject: a failed call of the platform API leaves an
\* entry under the key)
getObjectCachesFailure(kind, id, c, plat, t, ok) ==
    LET key == objCacheName(kind, id)
        hit == deserialize(cacheGet(c, key).value, kind)
        o == Upstream(kind, id, plat)
    IN  IF cacheGet(c, key).found
        THEN [obj |-> hit.result, err |-> hit.err, cache |-> c,
              calls |-> 0, fetched |-> NoObject, put |-> FALSE]
        ELSE IF ~ok
        THEN [obj |-> NoObject, err |-> "could not retrieve",
              cache |-> cacheSet(c, key, <<>>, t),
              calls |-> 1, fetched |-> NoObject, put |-> FALSE]
        ELSE IF serialize(o).err # ""
        THEN [obj |-> NoObject, err |-> "could not encode", cache |-> c,
              calls |-> 1, fetched |-> o, put |-> FALSE]
        ELSE [obj |-> o, err |-> "", cache |-> cacheSet(c, key, serialize(o).data, t),
              calls |-> 1, fetched |-> o, put |-> TRUE]

\* (mutation of getObject: an entry that does not decode is taken for a miss:
\* the object is fetched and the entry replaced)
getObjectDecodeMiss(kind, id, c, plat, t, ok) ==
    LET key == objCacheName(kind, id)
        hit == deserialize(cacheGet(c, key).value, kind)
        o == Upstream(kind, id, plat)
    IN  IF cacheGet(c, key).found /\ hit.err = ""
        THEN [obj |-> hit.result, err |-> "", cache |-> c,
              calls |-> 0, fetched |-> NoObject, put |-> FALSE]
        ELSE IF ~ok
        THEN [obj |-> NoObject, err |-> "could not retrieve", cache |-> c,
              calls |-> 1, fetched |-> NoObject, put |-> FALSE]
        ELSE IF serialize(o).err # ""
        THEN [obj |-> NoObject, err |-> "could not encode", cache |-> c,
              calls |-> 1, fetched |-> o, put |-> FALSE]
        ELSE [obj |-> o, err |-> "", cache |-> cacheSet(c, key, serialize(o).data, t),
              calls |-> 1, fetched |-> o, put |-> TRUE]

(***************************************************************************)
(* getApp / getSpace / getOrg: cache-aside resolution of one object.       *)
(* ok tells whether the call of the platform API succeeds; it is consulted *)
(* on a miss only.  The result carries the returned object and error, the  *)
(* cache after the call and the number of platform calls made.             *)
(***************************************************************************)
getObject(kind, id, c, plat, t, ok) ==
    LET key == objCacheName(kind, id)
        got == cacheGet(c, key)
    IN  IF ~got.found
        THEN \* Not found in cache
             IF ~ok
             THEN [obj |-> NoObject, err |-> "could not retrieve", cache |-> c,
                   calls |-> 1, fetched |-> NoObject, put |-> FALSE]
             ELSE LET o == Upstream(kind, id, plat)
                      enc == serialize(o)
                  IN  IF enc.err # ""
                      THEN [obj |-> NoObject, err |-> "could not encode", cache |-> c,
                            calls |-> 1, fetched |-> o, put |-> FALSE]
                      ELSE [obj |-> o, err |-> "",
                            cache |-> cacheSet(c, key, enc.data, t),
                            calls |-> 1, fetched |-> o, put |-> TRUE]
        ELSE LET dec == deserialize(got.value, kind)
             IN  IF dec.err # ""
                 THEN [obj |-> NoObject, err |-> "could not decode", cache |-> c,
                       calls |-> 0, fetched |-> NoObject, put |-> FALSE]
                 ELSE [obj |-> dec.result, err |-> "", cache |-> c,
                       calls |-> 0, fetched |-> NoObject, put |-> FALSE]

getApp(appID, c, plat, t, ok) == getObject("app", appID, c, plat, t, ok)

getSpace(spaceID_, c, plat, t, ok) == getObject("space", spaceID_, c, plat, t, ok)

getOrg(orgID_, c, plat, t, ok) == getObject("org", orgID_, c, plat, t, ok)

(***************************************************************************)
(* The history of one processResource call.                                *)
(***************************************************************************)
NoCalls == [k \in Kinds |-> 0]

NewRun(attrs, pass, first, earlierErr, cold) ==
    [ret |-> "",                \* "": running, "nil" / "err": what it returned
     before |-> attrs,          \* the attributes when the call started
     cold |-> cold,             \* the cache was empty when the call started
     path |-> "none",           \* "app" / "space": the path taken
     calls |-> NoCalls,         \* platform calls made, by kind
     gets |-> 0,                \* cache lookups made
     failed |-> FALSE,          \* a lookup of this call has returned an error
     written |-> {},            \* keys written by PutStr
     pass |-> pass,             \* 2: the resource is enriched a second time
     first |-> first,           \* the outcome of the first pass
     earlierErr |-> earlierErr, \* an earlier resource of the batch failed
     batchRet |-> ""]           \* what the batch call returned

NoFirst == [attrs |-> <<>>, failed |-> FALSE]

IsCold(c) == \A k \in DOMAIN c : c[k] = NoEntry

\* no processResource call is under way
Idle(batchRet, earlierErr) ==
    [NewRun(<<>>, 0, NoFirst, earlierErr, FALSE) EXCEPT !.batchRet = batchRet]

(***************************************************************************)
(* The processor's life: Config.CloudFoundry, Start and Shutdown, the      *)
(* contexts.  "startCtx" is the context Start derives with WithCancel and  *)
(* hands to cf.New; "batchCtx" is the context the caller of processMetrics *)
(* / processLogs / processTraces passes with a batch.                      *)
(***************************************************************************)
authTypeClientCredentials == "client_credentials"
authTypeUserPass == "user_pass"
authTypeToken == "token"

AuthTypes == {authTypeUserPass, authTypeClientCredentials, authTypeToken}

CfAuth(type, username, password, accessToken, refreshToken, clientID, clientSecret) ==
    [Type |-> type, Username |-> username, Password |-> password,
     AccessToken |-> accessToken, RefreshToken |-> refreshToken,
     ClientID |-> clientID, ClientSecret |-> clientSecret]

\* cfap.cfCli before Start, and after a Start that built no client
NoClient == [ctx |-> Nil]

\* no batch call is under way
NoBatch == [state |-> "none", fetch |-> "", callerDone |-> FALSE, afterShutdown |-> FALSE]

(***************************************************************************)
(* cf.New: the client with its defaults, the options applied in the order  *)
(* given, then the cache built by newCache.  An option is the fields it    *)
(* sets.                                                                   *)
(***************************************************************************)
WithUserPassword(userName, password) ==
    [authType |-> authTypeUserPass, authID |-> userName, authSecret |-> password]

WithClientCredentials(clientID, clientSecret) ==
    [authType |-> authTypeClientCredentials, authID |-> clientID,
     authSecret |-> clientSecret]

WithToken(token, refreshToken) ==
    [authType |-> authTypeToken, authID |-> token, authSecret |-> refreshToken]

WithCacheTTL(cacheTTL) == [cacheTTL |-> cacheTTL]

newCache(cli) ==
    [Shards |-> bigcacheShards, LifeWindow |-> cli.cacheTTL,
     CleanWindow |-> bigcacheCleanWindow]

RECURSIVE ApplyOptions(_, _)
ApplyOptions(cli, options) ==
    IF options = <<>> THEN cli
    ELSE ApplyOptions([f \in DOMAIN cli |->
                         IF f \in DOMAIN Head(options) THEN Head(options)[f]
                         ELSE cli[f]],
                      Tail(options))

New(ctx, options) ==
    LET cli == ApplyOptions([ctx |-> ctx, cacheTTL |-> 10 * Minute, authType |-> "",
                             authID |-> "", authSecret |-> ""], options)
    IN  [ctx |-> cli.ctx, cacheTTL |-> cli.cacheTTL, authType |-> cli.authType,
         authID |-> cli.authID, authSecret |-> cli.authSecret,
         cache |-> newCache(cli)]

\* the option Start passes for the authentication scheme
AuthOption(auth) ==
    CASE auth.Type = authTypeUserPass -> WithUserPassword(auth.Username, auth.Password)
      [] auth.Type = authTypeClientCredentials ->
            WithClientCredentials(auth.ClientID, auth.ClientSecret)
      [] OTHER -> WithToken(auth.AccessToken, auth.RefreshToken)

\* no object has been handed to a caller
NoHeld == [key |-> Nil, obj |-> NoObject, mutated |-> FALSE, later |-> FALSE]

\* the observer has not been called
NoObs == [op |-> Nil]

\* a map as a function returns it: nil, or made with its content; a slice
\* is returned likewise, nil or with its items
NilMap == [nil |-> TRUE, m |-> <<>>]
MakeMap(m) == [nil |-> FALSE, m |-> m]

Listers == 1..MaxListers

\* the applications the containers belong to
AppGUIDs == {"g1", "g2"}

\* a goroutine that has not called ListEndpoints
IdleLister == [state |-> "idle", todo |-> <<>>, infos |-> <<>>]

\* newObserver: the observer as constructed.  cancel is a function that does
\* nothing, once has not run; ctx, cf, containers and apps are left nil.
newObserver ==
    /\ g = [ctx |-> Nil, cancel |-> "noop", cf |-> Nil, containers |-> NilMap,
            once |-> FALSE]
    /\ cancelled = {}
    /\ appMu = Nil
    /\ starter = [state |-> "idle", containers |-> NilMap]
    /\ task = [state |-> "none", containers |-> NilMap, ctx |-> Nil]
    /\ listers = [l \in Listers |-> IdleLister]
    /\ pending = {}
    /\ hist = [starts |-> 0,         \* calls of Start
               started |-> FALSE,    \* a Start has returned nil
               launched |-> 0,       \* goroutines once.Do has started
               launchCtx |-> Nil,    \* the context of the Start that started one
               latest |-> NilMap,    \* the infos of the last ListEndpoints to return
               fetches |-> [id \in AppGUIDs |-> 0],  \* App's platform calls by app id (two
               stores |-> [id \in AppGUIDs |-> 0],   \*   stands for more), and the successful
                                                     \*   ones, since the last SyncApps
               lastSync |-> [who |-> Nil, err |-> "", fetched |-> 0],  \* the last SyncApps
                                                     \*   run, and the number of its fetches
               panicked |-> FALSE]   \* a nil g.cf was dereferenced

\* The parts of the state a specification does not use.
InitOther ==
    /\ held = NoHeld
    /\ flight = [kind |-> Nil]
    /\ apps = <<>>
    /\ obs = NoObs
    /\ newObserver

\* The processor after Validate and Start have succeeded.
InitStarted ==
    /\ cloudFoundry = [Endpoint |-> "https://api.cf",
                       Auth |-> CfAuth(authTypeUserPass, "u", "p", "", "", "", "")]
    /\ validateRet = "nil"
    /\ startRet = "nil"
    /\ shutdownRet = ""
    /\ cfCli = New("startCtx", <<WithCacheTTL(config.CacheTTL),
                                  AuthOption(cloudFoundry.Auth)>>)
    /\ cancel = "startCtx"
    /\ done = {}
    /\ cleaner = "running"
    /\ batch = NoBatch

(***************************************************************************)
(* Configuration.                                                          *)
(***************************************************************************)
\* createDefaultConfig's Extract block
defaultExtract ==
    [App |-> TRUE, Space |-> FALSE, Org |-> FALSE,
     AppStateLifecycle |-> FALSE, AppDates |-> FALSE]

\* (mutation of createDefaultConfig: the TTL the comment on Config.CacheTTL
\* names, five minutes)
createDefaultConfigFiveMinutes ==
    [CacheTTL |-> 5 * Minute, Extract |-> defaultExtract,
     AppIDAttributeKeyAssociation |-> defaultAppIDAttrKeyAssociation]

createDefaultConfig ==
    [CacheTTL |-> defaultCacheTTL, Extract |-> defaultExtract,
     AppIDAttributeKeyAssociation |-> defaultAppIDAttrKeyAssociation]

NoCall == [key |-> Nil]

InitCache ==
    /\ now = 0
    /\ cleanDue = FALSE
    /\ lastClean = -1
    /\ cache = [k \in Keys |-> NoEntry]
    /\ platform = [k \in Keys |-> 1]
    /\ changes = 0
    /\ stored = [k \in Keys |-> NoStored]
    /\ last = NoCall

InitProc ==
    /\ pc = "idle"
    /\ pos = 0
    /\ resource = <<>>
    /\ spaceID = ""
    /\ orgID = ""
    /\ run = Idle("", FALSE)

\* The state after Start: the client and its empty cache exist.
Init ==
    /\ \E ttl \in 0..MaxTTL : config = [Extract |-> defaultExtract, CacheTTL |-> ttl]
    /\ InitCache
    /\ InitProc
    /\ InitStarted
    /\ workers = <<>>
    /\ InitOther

(***************************************************************************)
(* The environment: the clock, the clean-up goroutine, the platform.       *)
(***************************************************************************)
Tick ==
    /\ now < MaxTime
    /\ ~cleanDue
    /\ pc = "idle"
    /\ now' = now + 1
    /\ cleanDue' = ((now + 1) % bigcacheCleanWindow = 0)
    /\ UNCHANGED <<lifeVars, otherVars, workers, config, lastClean, cache, platform, changes, stored, last>>
    /\ UNCHANGED procVars

CleanUp ==
    /\ cleanDue
    /\ cache' = cleanUp(cache, now, config.CacheTTL)
    /\ cleanDue' = FALSE
    /\ lastClean' = now
    /\ UNCHANGED <<lifeVars, otherVars, workers, config, now, platform, changes, stored, last>>
    /\ UNCHANGED procVars

UpstreamChange ==
    /\ changes < MaxChanges
    /\ \E key \in Keys, v \in Versions :
          /\ v # platform[key]
          /\ platform' = [platform EXCEPT ![key] = v]
    /\ changes' = changes + 1
    /\ UNCHANGED <<lifeVars, otherVars, workers, config, now, cleanDue, lastClean, cache, stored, last>>
    /\ UNCHANGED procVars

(***************************************************************************)
(* One call of getApp / getSpace / getOrg, with the record of what it did. *)
(***************************************************************************)
Call(kind, id, r) ==
    LET key == objCacheName(kind, id)
    IN  /\ cache' = r.cache
        /\ stored' = IF r.put
                     THEN [stored EXCEPT ![key] = [obj |-> r.fetched, ts |-> now]]
                     ELSE stored
        /\ last' = [key |-> key, kind |-> kind, id |-> id, at |-> now,
                    prior |-> stored[key], swept |-> lastClean,
                    obj |-> r.obj, err |-> r.err, calls |-> r.calls,
                    fetched |-> r.fetched, after |-> r.cache[key]]
        /\ held' = IF held.mutated
                   THEN [held EXCEPT !.later = @ \/ (key = held.key)]
                   ELSE [key |-> key, obj |-> r.obj, mutated |-> FALSE,
                         later |-> FALSE]

GetApp ==
    /\ \E id \in IDs, ok \in BOOLEAN :
          Call("app", id, getApp(id, cache, platform, now, ok))
    /\ UNCHANGED <<lifeVars, workers, config, now, cleanDue, lastClean, platform, changes>>
    /\ UNCHANGED <<procVars, flight, apps, obs, syncVars>>

GetSpace ==
    /\ \E id \in IDs, ok \in BOOLEAN :
          Call("space", id, getSpace(id, cache, platform, now, ok))
    /\ UNCHANGED <<lifeVars, workers, config, now, cleanDue, lastClean, platform, changes>>
    /\ UNCHANGED <<procVars, flight, apps, obs, syncVars>>

GetOrg ==
    /\ \E id \in IDs, ok \in BOOLEAN :
          Call("org", id, getOrg(id, cache, platform, now, ok))
    /\ UNCHANGED <<lifeVars, workers, config, now, cleanDue, lastClean, platform, changes>>
    /\ UNCHANGED <<procVars, flight, apps, obs, syncVars>>

Next ==
    \/ Tick
    \/ CleanUp
    \/ UpstreamChange
    \/ GetApp
    \/ GetSpace
    \/ GetOrg

Spec == Init /\ [][Next]_vars

(***************************************************************************)
(* The caller of getApp / getSpace / getOrg is handed `&cfApp`, a struct   *)
(* local to the call: on a miss the copy `cfApp = *app` of the fetched     *)
(* object, on a hit the object deserialize has decoded into it.  The cache *)
(* holds the bytes serialize produced.  held is that object in the hands   *)
(* of the caller, who may write to it; a caller that has written to its    *)
(* object keeps it while it goes on resolving.                             *)
(***************************************************************************)
callerMutates ==
    /\ held.obj # NoObject
    /\ ~held.mutated
    /\ held' = [held EXCEPT
                   !.obj = [@ EXCEPT !.Name = "tampered",
                                     !.Labels = [k \in DOMAIN @ |-> "tampered"]],
                   !.mutated = TRUE]
    /\ UNCHANGED <<lifeVars, workers, config, cacheVars, procVars, flight, apps, obs, syncVars>>

NextCaller ==
    \/ Tick
    \/ CleanUp
    \/ UpstreamChange
    \/ GetApp
    \/ GetSpace
    \/ GetOrg
    \/ callerMutates

SpecCaller == Init /\ [][NextCaller]_vars

(***************************************************************************)
(* The Get* accessors of the client: each takes the result r of getApp /   *)
(* getSpace / getOrg and returns the fields it reads, or r's error.        *)
(***************************************************************************)
\* time.Time.String()
TimeString(t) == t.date \o " " \o t.clock \o " " \o t.zone

GetAppName(r) == IF r.err # "" THEN [err |-> r.err, name |-> ""]
                 ELSE [err |-> "", name |-> r.obj.Name]

\* (mutation of GetAppMetadata: the annotations are returned as labels too)
GetAppMetadataSwapped(r) ==
    IF r.err # "" THEN [err |-> r.err, labels |-> <<>>, annotations |-> <<>>]
    ELSE [err |-> "", labels |-> r.obj.Annotations, annotations |-> r.obj.Annotations]

GetAppMetadata(r) == IF r.err # "" THEN [err |-> r.err, labels |-> <<>>, annotations |-> <<>>]
                     ELSE [err |-> "", labels |-> r.obj.Labels, annotations |-> r.obj.Annotations]

GetAppSpace(r) == IF r.err # "" THEN [err |-> r.err, guid |-> ""]
                  ELSE [err |-> "", guid |-> r.obj.Parent]

GetAppState(r) == IF r.err # "" THEN [err |-> r.err, state |-> ""]
                  ELSE [err |-> "", state |-> r.obj.State]

GetAppDates(r) == IF r.err # "" THEN [err |-> r.err, created |-> "", updated |-> ""]
                  ELSE [err |-> "", created |-> TimeString(r.obj.CreatedAt),
                        updated |-> TimeString(r.obj.UpdatedAt)]

GetAppLifecycle(r) == IF r.err # "" THEN [err |-> r.err, type |-> "", buildpacks |-> <<>>, stack |-> ""]
                      ELSE [err |-> "", type |-> r.obj.LifecycleType,
                            buildpacks |-> r.obj.Buildpacks, stack |-> r.obj.Stack]

GetSpaceName(r) == IF r.err # "" THEN [err |-> r.err, name |-> ""]
                   ELSE [err |-> "", name |-> r.obj.Name]

GetSpaceMetadata(r) == IF r.err # "" THEN [err |-> r.err, labels |-> <<>>, annotations |-> <<>>]
                       ELSE [err |-> "", labels |-> r.obj.Labels, annotations |-> r.obj.Annotations]

GetSpaceOrg(r) == IF r.err # "" THEN [err |-> r.err, guid |-> ""]
                  ELSE [err |-> "", guid |-> r.obj.Parent]

GetOrgName(r) == IF r.err # "" THEN [err |-> r.err, name |-> ""]
                 ELSE [err |-> "", name |-> r.obj.Name]

GetOrgMetadata(r) == IF r.err # "" THEN [err |-> r.err, labels |-> <<>>, annotations |-> <<>>]
                     ELSE [err |-> "", labels |-> r.obj.Labels, annotations |-> r.obj.Annotations]

(***************************************************************************)
(* Resources and their attributes (pcommon.Map): key -> <<type, value>>.   *)
(***************************************************************************)
cfAttrNSPrefix == "cloudfoundry."

\* defaultAppIDAttrKeyAssociation
AppIDAttributeKeyAssociation == "app_id"

\* the key getSpaceID reads from the configuration
SpaceIDAttributeKeyAssociation == "space_id"

Str(v) == <<"Str", v>>

\* (mutation of PutStr: the map is replaced by the one attribute)
PutStrAlone(attrs, k, v) == [x \in {k} |-> Str(v)]

\* (mutation of PutStr: a value already present is extended, not replaced)
PutStrAppend(attrs, k, v) ==
    [x \in DOMAIN attrs \cup {k} |->
        IF x # k THEN attrs[x]
        ELSE IF k \in DOMAIN attrs THEN Str(attrs[k][2] \o "," \o v) ELSE Str(v)]

\* pcommon.Map.PutStr: upsert of one string attribute
PutStr(attrs, k, v) ==
    [x \in DOMAIN attrs \cup {k} |-> IF x = k THEN Str(v) ELSE attrs[x]]

\* for k, v := range m { PutStr(prefix+k, *v) }
PutStrs(attrs, prefix, m) ==
    [x \in DOMAIN attrs \cup {prefix \o k : k \in DOMAIN m} |->
        IF \E k \in DOMAIN m : x = prefix \o k
        THEN Str(m[CHOOSE k \in DOMAIN m : x = prefix \o k])
        ELSE attrs[x]]

\* for i, v := range buildpacks { PutStr(prefix+strconv.Itoa(i), v) }
PutList(attrs, prefix, l) ==
    PutStrs(attrs, prefix, [k \in {ToString(i - 1) : i \in 1..Len(l)} |->
                              l[CHOOSE i \in 1..Len(l) : ToString(i - 1) = k]])

MapKeys(prefix, m) == {prefix \o k : k \in DOMAIN m}

\* (mutation of getAppID: the app id attribute is not read)
getAppIDNone(attrs) == ""

\* (mutation of getAppID: a resource without the attribute gets a default id)
getAppIDDefault(attrs) ==
    IF AppIDAttributeKeyAssociation \in DOMAIN attrs
       /\ attrs[AppIDAttributeKeyAssociation][1] = "Str"
    THEN attrs[AppIDAttributeKeyAssociation][2]
    ELSE "g1"

\* (mutation of getAppID: a value that is not a string is read as an id)
getAppIDAnyType(attrs) ==
    IF AppIDAttributeKeyAssociation \notin DOMAIN attrs
    THEN ""
    ELSE IF attrs[AppIDAttributeKeyAssociation][1] = "Str"
    THEN attrs[AppIDAttributeKeyAssociation][2]
    ELSE "g1"

getAppID(attrs) ==
    IF AppIDAttributeKeyAssociation \in DOMAIN attrs
       /\ attrs[AppIDAttributeKeyAssociation][1] = "Str"
    THEN attrs[AppIDAttributeKeyAssociation][2]
    ELSE ""

getSpaceID(attrs) ==
    IF SpaceIDAttributeKeyAssociation \in DOMAIN attrs
       /\ attrs[SpaceIDAttributeKeyAssociation][1] = "Str"
    THEN attrs[SpaceIDAttributeKeyAssociation][2]
    ELSE ""

\* The resources a batch can carry.
ResourceInputs ==
    { [k \in {"app_id", "host"} |-> IF k = "app_id" THEN Str("g1") ELSE Str("h1")],
      [k \in {"space_id"} |-> Str("g1")],
      [k \in {"host"} |-> Str("h1")],
      [k \in {"app_id", "space_id"} |-> IF k = "app_id" THEN Str("") ELSE Str("g1")],
      [k \in {"app_id"} |-> <<"Int", 7>>],
      [k \in {"app_id", "space_id"} |-> IF k = "app_id" THEN Str("g1") ELSE Str("g2")] }

(***************************************************************************)
(* Where processAppID / processSpaceID go after each step, by the Extract  *)
(* flags.  "return" stands for `return true, nil`.                         *)
(***************************************************************************)
\* (mutation of AfterSpace: the organization is never resolved)
AfterSpaceNoOrg(cfg) == "return"

AfterSpace(cfg) == IF cfg.Extract.Org THEN "GetSpaceOrg" ELSE "return"

\* (mutation of AfterAppDates: the space cascade is entered for org alone)
AfterAppDatesOrg(cfg) ==
    IF cfg.Extract.Space \/ cfg.Extract.Org THEN "GetAppSpace" ELSE "return"

AfterAppDates(cfg) == IF cfg.Extract.Space THEN "GetAppSpace" ELSE "return"

AfterAppLifecycle(cfg) ==
    IF cfg.Extract.AppDates THEN "GetAppDates" ELSE AfterAppDates(cfg)

AfterAppMetadata(cfg) ==
    IF cfg.Extract.AppStateLifecycle THEN "GetAppState" ELSE AfterAppLifecycle(cfg)

\* (mutation of AfterAppName: the metadata flag is not consulted)
AfterAppNameAlways(cfg) == "GetAppMetadata"

AfterAppName(cfg) ==
    IF cfg.Extract.App THEN "GetAppMetadata" ELSE AfterAppMetadata(cfg)

\* r: result of the lookup; keys: the keys written; next: where to go
Noted(rn, kind, r, keys, next) ==
    [rn EXCEPT !.path = IF @ # "none" THEN @ ELSE IF kind = "app" THEN "app" ELSE "space",
               !.calls[kind] = @ + r.calls,
               !.gets = @ + 1,
               !.failed = @ \/ (r.err # ""),
               !.written = @ \cup keys,
               !.ret = IF next = "error" THEN "err"
                       ELSE IF next = "return" THEN "nil" ELSE ""]

Goto(next) == pc' = IF next \in {"return", "error"} THEN "returned" ELSE next

\* One lookup step of the handler: the client call, then the outcome.
Lookup(kind, id, r, attrs, keys, next) ==
    /\ cache' = r.cache
    /\ UNCHANGED <<stored, last>>
    /\ resource' = attrs
    /\ run' = Noted(run, kind, r, keys, next)
    /\ Goto(next)
    /\ UNCHANGED <<lifeVars, otherVars, workers, config, now, cleanDue, lastClean, platform, changes, pos>>

(***************************************************************************)
(* processMetrics / processLogs / processTraces: the loop over the batch's *)
(* resources; the three functions are the same loop over ResourceMetrics, *)
(* ResourceLogs and ResourceSpans.  The batch is read one resource at a    *)
(* time: processBatch takes the first resource, nextResource the following *)
(* ones, batchReturn is the `return md, nil` after the loop.  The error    *)
(* processResource returns is not looked at by any of the three.           *)
(***************************************************************************)
processBatch ==
    /\ pc = "idle"
    /\ \E attrs \in ResourceInputs :
          /\ resource' = attrs
          /\ run' = NewRun(attrs, 1, NoFirst, FALSE, IsCold(cache))
    /\ pos' = 1
    /\ pc' = "processResource"
    /\ spaceID' = ""
    /\ orgID' = ""
    /\ UNCHANGED <<lifeVars, otherVars, workers, config, now, cleanDue, lastClean, cache, platform, changes,
                   stored, last>>

nextResource ==
    /\ pc = "returned"
    /\ pos < MaxBatch
    /\ \E attrs \in ResourceInputs :
          /\ resource' = attrs
          /\ run' = NewRun(attrs, 1, NoFirst, run.earlierErr \/ run.ret = "err",
                           IsCold(cache))
    /\ pos' = pos + 1
    /\ pc' = "processResource"
    /\ spaceID' = ""
    /\ orgID' = ""
    /\ UNCHANGED <<lifeVars, otherVars, workers, config, now, cleanDue, lastClean, cache, platform, changes,
                   stored, last>>

batchReturn ==
    /\ pc = "returned"
    /\ pc' = "idle"
    /\ pos' = 0
    /\ run' = Idle("nil", run.earlierErr \/ run.ret = "err")
    /\ resource' = <<>>
    /\ spaceID' = ""
    /\ orgID' = ""
    /\ UNCHANGED <<lifeVars, otherVars, workers, config, now, cleanDue, lastClean, cache, platform, changes,
                   stored, last>>

\* The batch carries the resource just enriched a second time: it is
\* enriched again, with the attributes the first pass has left on it.
processAgain ==
    /\ pc = "returned"
    /\ pos < MaxBatch
    /\ run.pass = 1
    /\ pos' = pos + 1
    /\ pc' = "processResource"
    /\ run' = NewRun(resource, 2, [attrs |-> resource, failed |-> run.failed],
                     run.earlierErr \/ run.ret = "err", IsCold(cache))
    /\ spaceID' = ""
    /\ orgID' = ""
    /\ UNCHANGED <<lifeVars, otherVars, workers, config, now, cleanDue, lastClean, cache, platform, changes,
                   stored, last, resource>>

(***************************************************************************)
(* processResource: processAppID up to its first client call, or, when the *)
(* resource has no app id, processSpaceID up to its first client call.     *)
(***************************************************************************)
processResource ==
    /\ pc = "processResource"
    /\ LET appID == getAppID(resource)
           sid == getSpaceID(resource)
       IN  IF appID # ""
           THEN \E ok \in BOOLEAN :
                   LET r == getApp(appID, cache, platform, now, ok)
                       n == GetAppName(r)
                   IN  /\ IF n.err # ""
                          THEN Lookup("app", appID, r, resource, {}, "error")
                          ELSE Lookup("app", appID, r,
                                      PutStr(resource, cfAttrNSPrefix \o "app.name", n.name),
                                      {cfAttrNSPrefix \o "app.name"},
                                      AfterAppName(config))
                       /\ UNCHANGED <<spaceID, orgID>>
           ELSE /\ IF sid # "" /\ config.Extract.Space
                   THEN /\ pc' = "GetSpaceName"
                        /\ spaceID' = sid
                        /\ run' = [run EXCEPT !.path = "space"]
                   ELSE /\ pc' = "returned"
                        /\ spaceID' = spaceID
                        /\ run' = [run EXCEPT !.ret = "nil"]
                /\ UNCHANGED <<lifeVars, otherVars, workers, config, now, cleanDue, lastClean, cache, platform,
                               changes, stored, last, pos, resource, orgID>>

(***************************************************************************)
(* processAppID, one action per client call after GetAppName.              *)
(***************************************************************************)
processAppID_Metadata ==
    /\ pc = "GetAppMetadata"
    /\ \E ok \in BOOLEAN :
          LET appID == getAppID(resource)
              r == getApp(appID, cache, platform, now, ok)
              m == GetAppMetadata(r)
              lp == cfAttrNSPrefix \o "app.labels."
              ap == cfAttrNSPrefix \o "app.annotations."
          IN  IF m.err # ""
              THEN Lookup("app", appID, r, resource, {}, "error")
              ELSE Lookup("app", appID, r,
                          PutStrs(PutStrs(resource, lp, m.labels), ap, m.annotations),
                          MapKeys(lp, m.labels) \cup MapKeys(ap, m.annotations),
                          AfterAppMetadata(config))
    /\ UNCHANGED <<spaceID, orgID>>

processAppID_State ==
    /\ pc = "GetAppState"
    /\ \E ok \in BOOLEAN :
          LET appID == getAppID(resource)
              r == getApp(appID, cache, platform, now, ok)
              st == GetAppState(r)
          IN  IF st.err # ""
              THEN Lookup("app", appID, r, resource, {}, "error")
              ELSE Lookup("app", appID, r,
                          PutStr(resource, cfAttrNSPrefix \o "app.state", st.state),
                          {cfAttrNSPrefix \o "app.state"},
                          "GetAppLifecycle")
    /\ UNCHANGED <<spaceID, orgID>>

processAppID_Lifecycle ==
    /\ pc = "GetAppLifecycle"
    /\ \E ok \in BOOLEAN :
          LET appID == getAppID(resource)
              r == getApp(appID, cache, platform, now, ok)
              lc == GetAppLifecycle(r)
              tk == cfAttrNSPrefix \o "app.lifecyle.type"
              sk == cfAttrNSPrefix \o "app.lifecyle.stack"
              bp == cfAttrNSPrefix \o "app.lifecyle.buildpacks."
          IN  IF lc.err # ""
              THEN Lookup("app", appID, r, resource, {}, "error")
              ELSE Lookup("app", appID, r,
                          PutList(PutStr(PutStr(resource, tk, lc.type), sk, lc.stack),
                                  bp, lc.buildpacks),
                          {tk, sk} \cup {bp \o ToString(i - 1) : i \in 1..Len(lc.buildpacks)},
                          AfterAppLifecycle(config))
    /\ UNCHANGED <<spaceID, orgID>>

processAppID_Dates ==
    /\ pc = "GetAppDates"
    /\ \E ok \in BOOLEAN :
          LET appID == getAppID(resource)
              r == getApp(appID, cache, platform, now, ok)
              d == GetAppDates(r)
              ck == cfAttrNSPrefix \o "app.created"
              uk == cfAttrNSPrefix \o "app.updated"
          IN  IF d.err # ""
              THEN Lookup("app", appID, r, resource, {}, "error")
              ELSE Lookup("app", appID, r,
                          PutStr(PutStr(resource, ck, d.created), uk, d.updated),
                          {ck, uk},
                          AfterAppDates(config))
    /\ UNCHANGED <<spaceID, orgID>>

processAppID_Space ==
    /\ pc = "GetAppSpace"
    /\ \E ok \in BOOLEAN :
          LET appID == getAppID(resource)
              r == getApp(appID, cache, platform, now, ok)
              sp == GetAppSpace(r)
          IN  IF sp.err # ""
              THEN /\ Lookup("app", appID, r, resource, {}, "error")
                   /\ spaceID' = spaceID
              ELSE /\ Lookup("app", appID, r, resource, {}, "GetSpaceName")
                   /\ spaceID' = sp.guid
    /\ UNCHANGED orgID

(***************************************************************************)
(* addSpaceMetadata(spaceID, resource), called by processAppID and by      *)
(* processSpaceID.  An error of GetSpaceMetadata is not returned: the      *)
(* function goes on to its end.                                            *)
(***************************************************************************)
addSpaceMetadata_Name ==
    /\ pc = "GetSpaceName"
    /\ \E ok \in BOOLEAN :
          LET r == getSpace(spaceID, cache, platform, now, ok)
              n == GetSpaceName(r)
          IN  IF n.err # ""
              THEN Lookup("space", spaceID, r, resource, {}, "error")
              ELSE Lookup("space", spaceID, r,
                          PutStr(resource, cfAttrNSPrefix \o "space.name", n.name),
                          {cfAttrNSPrefix \o "space.name"},
                          "GetSpaceMetadata")
    /\ UNCHANGED <<spaceID, orgID>>

addSpaceMetadata_Metadata ==
    /\ pc = "GetSpaceMetadata"
    /\ \E ok \in BOOLEAN :
          LET r == getSpace(spaceID, cache, platform, now, ok)
              m == GetSpaceMetadata(r)
              lp == cfAttrNSPrefix \o "space.labels."
              ap == cfAttrNSPrefix \o "space.annotations."
          IN  IF m.err # ""
              THEN Lookup("space", spaceID, r, resource, {}, AfterSpace(config))
              ELSE Lookup("space", spaceID, r,
                          PutStrs(PutStrs(resource, lp, m.labels), ap, m.annotations),
                          MapKeys(lp, m.labels) \cup MapKeys(ap, m.annotations),
                          AfterSpace(config))
    /\ UNCHANGED <<spaceID, orgID>>

\* orgID, err := cfap.cfCli.GetSpaceOrg(spaceID) in processAppID / processSpaceID
processID_SpaceOrg ==
    /\ pc = "GetSpaceOrg"
    /\ \E ok \in BOOLEAN :
          LET r == getSpace(spaceID, cache, platform, now, ok)
              o == GetSpaceOrg(r)
          IN  IF o.err # ""
              THEN /\ Lookup("space", spaceID, r, resource, {}, "error")
                   /\ orgID' = orgID
              ELSE /\ Lookup("space", spaceID, r, resource, {}, "GetOrgName")
                   /\ orgID' = o.guid
    /\ UNCHANGED spaceID

(***************************************************************************)
(* addOrgMetadata(orgID, resource).  An error of GetOrgMetadata is not     *)
(* returned: the function ends with `return nil`.                          *)
(***************************************************************************)
addOrgMetadata_Name ==
    /\ pc = "GetOrgName"
    /\ \E ok \in BOOLEAN :
          LET r == getOrg(orgID, cache, platform, now, ok)
              n == GetOrgName(r)
          IN  IF n.err # ""
              THEN Lookup("org", orgID, r, resource, {}, "error")
              ELSE Lookup("org", orgID, r,
                          PutStr(resource, cfAttrNSPrefix \o "org.name", n.name),
                          {cfAttrNSPrefix \o "org.name"},
                          "GetOrgMetadata")
    /\ UNCHANGED <<spaceID, orgID>>

addOrgMetadata_Metadata ==
    /\ pc = "GetOrgMetadata"
    /\ \E ok \in BOOLEAN :
          LET r == getOrg(orgID, cache, platform, now, ok)
              m == GetOrgMetadata(r)
              lp == cfAttrNSPrefix \o "org.labels."
              ap == cfAttrNSPrefix \o "org.annotations."
          IN  IF m.err # ""
              THEN Lookup("org", orgID, r, resource, {}, "return")
              ELSE Lookup("org", orgID, r,
                          PutStrs(PutStrs(resource, lp, m.labels), ap, m.annotations),
                          MapKeys(lp, m.labels) \cup MapKeys(ap, m.annotations),
                          "return")
    /\ UNCHANGED <<spaceID, orgID>>

(***************************************************************************)
(* The processor: batches of resources enriched by one goroutine, the      *)
(* clean-up goroutine of the cache running beside it.  The clock advances  *)
(* between batches.                                                        *)
(***************************************************************************)
InitEnrich ==
    /\ \E x \in [App : BOOLEAN, Space : BOOLEAN, Org : BOOLEAN,
                   AppStateLifecycle : BOOLEAN, AppDates : BOOLEAN] :
          config = [Extract |-> x, CacheTTL |-> MaxTTL]
    /\ InitCache
    /\ InitProc
    /\ InitStarted
    /\ workers = <<>>
    /\ InitOther

NextEnrich ==
    \/ Tick
    \/ CleanUp
    \/ processBatch
    \/ nextResource
    \/ batchReturn
    \/ processAgain
    \/ processResource
    \/ processAppID_Metadata
    \/ processAppID_State
    \/ processAppID_Lifecycle
    \/ processAppID_Dates
    \/ processAppID_Space
    \/ addSpaceMetadata_Name
    \/ addSpaceMetadata_Metadata
    \/ processID_SpaceOrg
    \/ addOrgMetadata_Name
    \/ addOrgMetadata_Metadata

SpecEnrich == InitEnrich /\ [][NextEnrich]_vars

(***************************************************************************)
(* Config.Validate.                                                        *)
(***************************************************************************)
fieldError(authType, param) ==
    param \o " is required when using auth_type: " \o authType

\* the error of the default case (its text without the quotes around auth_type)
authTypeError(authType) ==
    "configuration option auth_type must be set to one of the following values: "
    \o "[user_pass, client_credentials, token]. Specified value: " \o authType

\* (mutation of Validate: the second field of a scheme is checked first)
ValidateSecondFirst(c) ==
    IF c.Endpoint = "" THEN "CloudFoundry.Endpoint must be specified"
    ELSE IF c.Auth.Type = "" THEN "CloudFoundry.Auth.Type must be specified"
    ELSE IF c.Auth.Type = authTypeUserPass
    THEN IF c.Auth.Password = "" THEN fieldError(authTypeUserPass, "password")
         ELSE IF c.Auth.Username = "" THEN fieldError(authTypeUserPass, "username")
         ELSE "nil"
    ELSE IF c.Auth.Type = authTypeClientCredentials
    THEN IF c.Auth.ClientSecret = ""
         THEN fieldError(authTypeClientCredentials, "client_secret")
         ELSE IF c.Auth.ClientID = ""
         THEN fieldError(authTypeClientCredentials, "client_id")
         ELSE "nil"
    ELSE IF c.Auth.Type = authTypeToken
    THEN IF c.Auth.RefreshToken = "" THEN fieldError(authTypeToken, "refresh_token")
         ELSE IF c.Auth.AccessToken = "" THEN fieldError(authTypeToken, "access_token")
         ELSE "nil"
    ELSE authTypeError(c.Auth.Type)

\* the error's text, or "nil"
Validate(c) ==
    IF c.Endpoint = "" THEN "CloudFoundry.Endpoint must be specified"
    ELSE IF c.Auth.Type = "" THEN "CloudFoundry.Auth.Type must be specified"
    ELSE IF c.Auth.Type = authTypeUserPass
    THEN IF c.Auth.Username = "" THEN fieldError(authTypeUserPass, "username")
         ELSE IF c.Auth.Password = "" THEN fieldError(authTypeUserPass, "password")
         ELSE "nil"
    ELSE IF c.Auth.Type = authTypeClientCredentials
    THEN IF c.Auth.ClientID = ""
         THEN fieldError(authTypeClientCredentials, "client_id")
         ELSE IF c.Auth.ClientSecret = ""
         THEN fieldError(authTypeClientCredentials, "client_secret")
         ELSE "nil"
    ELSE IF c.Auth.Type = authTypeToken
    THEN IF c.Auth.AccessToken = "" THEN fieldError(authTypeToken, "access_token")
         ELSE IF c.Auth.RefreshToken = "" THEN fieldError(authTypeToken, "refresh_token")
         ELSE "nil"
    ELSE authTypeError(c.Auth.Type)

\* The configurations a processor can be built with.
CloudFoundryInputs ==
    { [Endpoint |-> e, Auth |-> CfAuth(t, u, p, at, rt, ci, cs)] :
        e \in {"", "https://api.cf"},
        t \in AuthTypes \cup {"", "basic"},
        u \in {"", "u"}, p \in {"", "p"},
        at \in {"", "a"}, rt \in {"", "r"},
        ci \in {"", "i"}, cs \in {"", "s"} }

(***************************************************************************)
(* Start, Shutdown and a batch call seen with the contexts involved.       *)
(***************************************************************************)
\* the process has not faulted
Alive == shutdownRet # "panic" /\ batch.state # "panicked"

\* (mutation of FetchContext: the fetch runs under the caller's context)
FetchContextCaller(cli, callerCtx) == callerCtx

\* the context of cfCli.cf.Applications.Get(cfCli.ctx, appID)
FetchContext(cli, callerCtx) == cli.ctx

CallValidate ==
    /\ validateRet = ""
    /\ startRet = ""
    /\ validateRet' = Validate(cloudFoundry)
    /\ UNCHANGED <<cloudFoundry, startRet, shutdownRet, cfCli, cancel, done,
                   cleaner, batch>>
    /\ UNCHANGED <<config, cacheVars, procVars, workers, otherVars>>

\* ctx, cfap.cancel = context.WithCancel(ctx), then the switch on the auth
\* type; ok: cf.New succeeds in building the connection.  cf.New creates
\* the cache, and with it the clean-up goroutine, before the connection.
Start ==
    /\ Alive
    /\ startRet = ""
    /\ cancel' = "startCtx"
    /\ IF cloudFoundry.Auth.Type \in AuthTypes
       THEN \E ok \in BOOLEAN :
               /\ cleaner' = IF "startCtx" \in done THEN "exited" ELSE "running"
               /\ cfCli' = IF ok
                           THEN New("startCtx", <<WithCacheTTL(config.CacheTTL),
                                                  AuthOption(cloudFoundry.Auth)>>)
                           ELSE NoClient
               /\ startRet' = IF ok THEN "nil" ELSE "err"
       ELSE /\ cleaner' = cleaner
            /\ cfCli' = cfCli
            /\ startRet' = "nil"
    /\ UNCHANGED <<cloudFoundry, validateRet, shutdownRet, done, batch>>
    /\ UNCHANGED <<config, cacheVars, procVars, workers, otherVars>>

\* cfap.cancel(); return nil
Shutdown ==
    /\ Alive
    /\ IF cancel = Nil
       THEN /\ shutdownRet' = "panic"
            /\ done' = done
       ELSE /\ shutdownRet' = "nil"
            /\ done' = done \cup {cancel}
    /\ UNCHANGED <<cloudFoundry, validateRet, startRet, cfCli, cancel, cleaner, batch>>
    /\ UNCHANGED <<config, cacheVars, procVars, workers, otherVars>>

\* the clean-up goroutine returns once its context is done
cleanerExit ==
    /\ cleaner = "running"
    /\ cfCli.ctx \in done \/ (cfCli = NoClient /\ "startCtx" \in done)
    /\ cleaner' = "exited"
    /\ UNCHANGED <<cloudFoundry, validateRet, startRet, shutdownRet, cfCli, cancel,
                   done, batch>>
    /\ UNCHANGED <<config, cacheVars, procVars, workers, otherVars>>

\* processMetrics(ctx, md) is called with a live context; the first client
\* call dereferences cfap.cfCli
batchCall ==
    /\ Alive
    /\ startRet = "nil"
    /\ batch.state = "none"
    /\ done' = done \ {"batchCtx"}
    /\ batch' = [NoBatch EXCEPT !.state = IF cfCli = NoClient THEN "panicked"
                                         ELSE "running"]
    /\ UNCHANGED <<cloudFoundry, validateRet, startRet, shutdownRet, cfCli, cancel,
                   cleaner>>
    /\ UNCHANGED <<config, cacheVars, procVars, workers, otherVars>>

\* the caller cancels the context it passed with the batch
cancelCaller ==
    /\ batch.state \in {"running", "fetching"}
    /\ "batchCtx" \notin done
    /\ done' = done \cup {"batchCtx"}
    /\ UNCHANGED <<cloudFoundry, validateRet, startRet, shutdownRet, cfCli, cancel,
                   cleaner, batch>>
    /\ UNCHANGED <<config, cacheVars, procVars, workers, otherVars>>

\* a lookup misses the cache: the call of the platform API begins
fetchStart ==
    /\ Alive
    /\ batch.state = "running"
    /\ batch' = [batch EXCEPT !.state = "fetching"]
    /\ UNCHANGED <<cloudFoundry, validateRet, startRet, shutdownRet, cfCli, cancel,
                   done, cleaner>>
    /\ UNCHANGED <<config, cacheVars, procVars, workers, otherVars>>

\* the call of the platform API returns: with the context's error when its
\* context is done, else with the object (ok) or an error
fetchReturn ==
    /\ Alive
    /\ batch.state = "fetching"
    /\ \E ok \in BOOLEAN :
          batch' = [state |-> "returned",
                    fetch |-> IF FetchContext(cfCli, "batchCtx") \in done
                              THEN "canceled"
                              ELSE IF ok THEN "ok" ELSE "failed",
                    callerDone |-> "batchCtx" \in done,
                    afterShutdown |-> shutdownRet = "nil"]
    /\ UNCHANGED <<cloudFoundry, validateRet, startRet, shutdownRet, cfCli, cancel,
                   done, cleaner>>
    /\ UNCHANGED <<config, cacheVars, procVars, workers, otherVars>>

\* return md, nil
batchEnd ==
    /\ Alive
    /\ batch.state \in {"running", "returned"}
    /\ batch' = NoBatch
    /\ UNCHANGED <<cloudFoundry, validateRet, startRet, shutdownRet, cfCli, cancel,
                   done, cleaner>>
    /\ UNCHANGED <<config, cacheVars, procVars, workers, otherVars>>

\* The state after newCFAttributesProcessor.
InitLifecycle ==
    /\ cloudFoundry \in CloudFoundryInputs
    /\ validateRet = ""
    /\ startRet = ""
    /\ shutdownRet = ""
    /\ cfCli = NoClient
    /\ cancel = Nil
    /\ done = {}
    /\ cleaner = "none"
    /\ batch = NoBatch
    /\ config \in {createDefaultConfig}
                   \cup {[createDefaultConfig EXCEPT !.CacheTTL = ttl] :
                            ttl \in 0..MaxTTL}
    /\ InitCache
    /\ InitProc
    /\ workers = <<>>
    /\ InitOther

NextLifecycle ==
    \/ CallValidate
    \/ Start
    \/ Shutdown
    \/ cleanerExit
    \/ batchCall
    \/ cancelCaller
    \/ fetchStart
    \/ fetchReturn
    \/ batchEnd

SpecLifecycle == InitLifecycle /\ [][NextLifecycle]_vars

\* the goroutines are scheduled: a call of the platform API returns, the
\* clean-up goroutine sees that its context is done
SpecLifecycleFair ==
    /\ InitLifecycle /\ [][NextLifecycle]_vars
    /\ WF_vars(cleanerExit) /\ WF_vars(fetchReturn)

(***************************************************************************)
(* Several batches in flight: beside the goroutine that runs               *)
(* processResource, the goroutines of other batches resolve objects        *)
(* through the same client and cache.  Their getApp / getSpace / getOrg    *)
(* calls are taken step by step: cache.Get, the call of the platform API,  *)
(* cache.Set.  Neither the client nor the processor takes a lock; each     *)
(* cache.Get and cache.Set is atomic (bigcache locks the shard).           *)
(***************************************************************************)
Others == {"batch2"}

\* the goroutine is between two resolves
Resting == [state |-> "idle", kind |-> Nil, id |-> Nil, obj |-> NoObject]

\* if value, err := cfCli.cache.Get(objCacheName); on a hit the resolve
\* returns the decoded entry at once
resolveGet ==
  \E w \in Others :
    /\ workers[w].state = "idle"
    /\ \E kind \in Kinds, id \in IDs :
          LET got == cacheGet(cache, objCacheName(kind, id))
          IN  workers' = [workers EXCEPT ![w] =
                 IF ~got.found
                 THEN [state |-> "missed", kind |-> kind, id |-> id,
                       obj |-> NoObject]
                 ELSE Resting]
    /\ UNCHANGED <<lifeVars, otherVars, config, cacheVars, procVars>>

\* app, err := cfCli.cf.Applications.Get(cfCli.ctx, appID)
resolveFetch ==
  \E w \in Others :
    /\ workers[w].state = "missed"
    /\ \E ok \in BOOLEAN :
          LET me == workers[w]
          IN  workers' = [workers EXCEPT ![w] =
                 IF ok
                 THEN [me EXCEPT !.state = "fetched",
                                 !.obj = Upstream(me.kind, me.id, platform)]
                 ELSE Resting]
    /\ UNCHANGED <<lifeVars, otherVars, config, cacheVars, procVars>>

\* serialize, then cfCli.cache.Set(objCacheName, objBytes)
resolveSet ==
  \E w \in Others :
    /\ workers[w].state = "fetched"
    /\ LET me == workers[w]
           enc == serialize(me.obj)
       IN  IF enc.err # ""
           THEN /\ workers' = [workers EXCEPT ![w] = Resting]
                /\ cache' = cache
           ELSE /\ workers' = [workers EXCEPT ![w] = Resting]
                /\ cache' = cacheSet(cache, objCacheName(me.kind, me.id), enc.data, now)
    /\ UNCHANGED <<lifeVars, otherVars, config, now, cleanDue, lastClean, platform, changes,
                   stored, last, procVars>>

\* A started processor that extracts the metadata of apps, spaces and orgs
\* and the dates of apps.
InitConcurrent ==
    /\ config = [Extract |-> [App |-> TRUE, Space |-> TRUE, Org |-> TRUE,
                             AppStateLifecycle |-> FALSE, AppDates |-> TRUE],
                 CacheTTL |-> MaxTTL]
    /\ InitCache
    /\ InitProc
    /\ InitStarted
    /\ workers = [w \in Others |-> Resting]
    /\ InitOther

NextConcurrent ==
    \/ Tick
    \/ CleanUp
    \/ processBatch
    \/ nextResource
    \/ batchReturn
    \/ processResource
    \/ processAppID_Metadata
    \/ processAppID_Dates
    \/ processAppID_Space
    \/ addSpaceMetadata_Name
    \/ addSpaceMetadata_Metadata
    \/ processID_SpaceOrg
    \/ addOrgMetadata_Name
    \/ addOrgMetadata_Metadata
    \/ resolveGet
    \/ resolveFetch
    \/ resolveSet

SpecConcurrent == InitConcurrent /\ [][NextConcurrent]_vars

(***************************************************************************)
(* Concurrent resolves of one object.  Each of the goroutines in Resolvers *)
(* calls getApp (or getSpace, getOrg) once for the same id, and the call   *)
(* is taken step by step: the call, cache.Get, the call of the platform    *)
(* API, serialize and cache.Set.  The client takes no lock between the     *)
(* steps.  flight keeps what each call has done and returned.              *)
(***************************************************************************)
Resolvers == 1..MaxResolvers

InFlight(f, w) == f.res[w].state \in {"called", "missed", "fetched"}

FlightKey == objCacheName(flight.kind, flight.id)

\* the state of flight after goroutine w has made a step to r; the entry
\* under the key is noted when the last call returns
Stepped(w, r, c) ==
    LET res == [flight.res EXCEPT ![w] = r]
    IN  [flight EXCEPT
           !.res = res,
           !.together = @ \/ \A v \in Resolvers :
                                  res[v].state \in {"called", "missed", "fetched"},
           !.after = IF \A v \in Resolvers : res[v].state = "returned"
                     THEN c[FlightKey] ELSE @]

\* func (cfCli *Client) getApp(appID string): the call begins
flightCall ==
  \E w \in Resolvers :
    /\ flight.res[w].state = "ready"
    /\ flight' = Stepped(w, [flight.res[w] EXCEPT !.state = "called"], cache)
    /\ UNCHANGED <<lifeVars, workers, config, cacheVars, procVars, held, apps, obs, syncVars>>

\* if value, err := cfCli.cache.Get(objCacheName); on a hit the entry is
\* decoded and returned
flightGet ==
  \E w \in Resolvers :
    /\ flight.res[w].state = "called"
    /\ LET got == cacheGet(cache, FlightKey)
           dec == deserialize(got.value, flight.kind)
       IN  flight' = Stepped(w,
              IF ~got.found
              THEN [flight.res[w] EXCEPT !.state = "missed"]
              ELSE [flight.res[w] EXCEPT !.state = "returned",
                                         !.obj = dec.result,
                                         !.err = IF dec.err # "" THEN "could not decode"
                                                 ELSE ""],
              cache)
    /\ UNCHANGED <<lifeVars, workers, config, cacheVars, procVars, held, apps, obs, syncVars>>

\* app, err := cfCli.cf.Applications.Get(cfCli.ctx, appID)
flightFetch ==
  \E w \in Resolvers, ok \in BOOLEAN :
    /\ flight.res[w].state = "missed"
    /\ flight' = Stepped(w,
          IF ok
          THEN [flight.res[w] EXCEPT !.state = "fetched", !.called = TRUE,
                                     !.fetched = Upstream(flight.kind, flight.id, platform)]
          ELSE [flight.res[w] EXCEPT !.state = "returned", !.called = TRUE,
                                     !.err = "could not retrieve"],
          cache)
    /\ UNCHANGED <<lifeVars, workers, config, cacheVars, procVars, held, apps, obs, syncVars>>

\* cfApp = *app; serialize; cfCli.cache.Set(objCacheName, data); return
flightSet ==
  \E w \in Resolvers :
    /\ flight.res[w].state = "fetched"
    /\ LET enc == serialize(flight.res[w].fetched)
       IN  IF enc.err # ""
           THEN /\ cache' = cache
                /\ flight' = Stepped(w, [flight.res[w] EXCEPT !.state = "returned",
                                                              !.err = "could not encode"],
                                     cache)
           ELSE /\ cache' = cacheSet(cache, FlightKey, enc.data, now)
                /\ flight' = Stepped(w, [flight.res[w] EXCEPT !.state = "returned",
                                                              !.obj = flight.res[w].fetched],
                                     cacheSet(cache, FlightKey, enc.data, now))
    /\ UNCHANGED <<lifeVars, workers, config, now, cleanDue, lastClean, platform,
                   changes, stored, last, procVars, held, apps, obs, syncVars>>

\* A started processor with an empty cache; the goroutines are about to
\* resolve one object.
InitResolve ==
    /\ config = [Extract |-> defaultExtract, CacheTTL |-> MaxTTL]
    /\ InitCache
    /\ InitProc
    /\ InitStarted
    /\ workers = <<>>
    /\ held = NoHeld
    /\ apps = <<>>
    /\ obs = NoObs
    /\ newObserver
    /\ \E kind \in Kinds, id \in IDs :
          flight = [kind |-> kind, id |-> id,
                    res |-> [w \in Resolvers |->
                               [state |-> "ready", fetched |-> NoObject,
                                obj |-> NoObject, err |-> "", called |-> FALSE]],
                    together |-> FALSE, after |-> NoEntry]

NextResolve ==
    \/ Tick
    \/ CleanUp
    \/ UpstreamChange
    \/ flightCall
    \/ flightGet
    \/ flightFetch
    \/ flightSet

SpecResolve == InitResolve /\ [][NextResolve]_vars

(***************************************************************************)
(* The Garden observer (extension.go).  A container is described by its    *)
(* garden.ContainerInfo: the container's IP and its properties, a          *)
(* map[string]string.  The value of network.ports is a string, here the    *)
(* sequence of its characters; the value of log_config is a JSON text,     *)
(* here the JSON value it denotes (a type and a content), "malformed" for  *)
(* a text that is not JSON.  The applications are the ones the platform    *)
(* serves with every label value set: containerLabels reads the labels     *)
(* as `*v`, as processAppID does.                                          *)
(***************************************************************************)
ProtocolTCP == "tcp"

JString(str) == [t |-> "string", str |-> str]
JNumber(text) == [t |-> "number", num |-> text]
JObject(members) == [t |-> "object", members |-> members]

\* the label value is read through the pointer
ObserverVersions == {v \in Versions : ~HasNilElement(Labels("app", v))}

testHandle == "h1"
testIp == "1.2.3.4"
testAppID == "g1"

PortStrings == UNION {[1..n -> {"0", "7", ",", "x"}] : n \in 0..MaxPortsLen}

\* the log_config of the tests, and ones parseTags refuses
LogConfigs ==
    {JObject("guid" :> JString(testHandle) @@ "index" :> JNumber("0")
             @@ "tags" :> JObject("app_id" :> JString(testAppID)
                                  @@ "app_name" :> JString("myapp"))),
     JObject("tags" :> JObject("team" :> JString("cell")
                               @@ "instance_id" :> JNumber("0")
                               @@ "app_name" :> JString("myapp"))),
     JObject("tags" :> JObject(<<>>)),
     JObject("guid" :> JString(testHandle)),
     JObject("tags" :> JString("none")),
     JString("tags"),
     [t |-> "null"],
     [t |-> "malformed"]}

\* a property that is in the map, or no property
Property(name, values) == {name :> x : x \in values} \cup {<<>>}

\* garden.ContainerInfo
ContainerInfo(ports, logConfig, appID) ==
    [ContainerIP |-> testIp, Properties |-> ports @@ logConfig @@ appID]

\* the containers containerEndpoints is called with
EndpointInfos ==
    {ContainerInfo(ports, lc, id) :
        ports \in Property("network.ports", PortStrings),
        lc \in Property("log_config",
                        {x \in LogConfigs :
                           x.t = "malformed"
                              \/ (x.t = "object" /\ "index" \in DOMAIN x.members)}),
        id \in Property("network.app_id", {testAppID})}

InfoToAppID(info) ==
    IF "network.app_id" \notin DOMAIN info.Properties
    THEN [id |-> "", err |-> "could not find app_id"]
    ELSE [id |-> info.Properties["network.app_id"], err |-> ""]

\* App: the application of a container, from g.apps or fetched and stored
App(info, cached, plat, ok) ==
    LET a == InfoToAppID(info)
    IN  IF a.err # ""
        THEN [app |-> NoObject, err |-> a.err, apps |-> cached, calls |-> 0]
        ELSE IF a.id \in DOMAIN cached
        THEN [app |-> cached[a.id], err |-> "", apps |-> cached, calls |-> 0]
        ELSE IF ~ok
        THEN [app |-> NoObject, err |-> "could not retrieve", apps |-> cached,
              calls |-> 1]
        ELSE [app |-> Upstream("app", a.id, plat), err |-> "",
              apps |-> (a.id :> Upstream("app", a.id, plat)) @@ cached, calls |-> 1]

\* json.Unmarshal([]byte(logConfig), &data) with data a map[string]any: a
\* JSON object fills the map, null leaves it nil, anything else is an error
Unmarshal(text) ==
    CASE text.t = "object" -> [err |-> "", data |-> text.members]
      [] text.t = "null" -> [err |-> "", data |-> <<>>]
      [] OTHER -> [err |-> "error unmarshaling logConfig", data |-> <<>>]

parseTags(info) ==
    IF "log_config" \notin DOMAIN info.Properties
    THEN [err |-> "container properties do not have log_config field", result |-> <<>>]
    ELSE LET u == Unmarshal(info.Properties["log_config"])
         IN  IF u.err # ""
             THEN [err |-> u.err, result |-> <<>>]
             ELSE IF "tags" \notin DOMAIN u.data \/ u.data["tags"].t # "object"
             THEN [err |-> "expected tags field to be a map", result |-> <<>>]
             ELSE LET tags == u.data["tags"].members
                  IN  [err |-> "",
                       result |-> [k \in {x \in DOMAIN tags : tags[x].t = "string"}
                                     |-> tags[k].str]]

\* (mutation of containerLabels: on a shared key the tag wins)
containerLabelsTagWins(info, app) ==
    LET tags == parseTags(info)
    IN  IF tags.err # "" THEN NilMap
        ELSE MakeMap([k \in DOMAIN tags.result \cup DOMAIN app.Labels |->
                        IF k \in DOMAIN tags.result THEN tags.result[k]
                        ELSE app.Labels[k]])

\* the labels of the tags, then app.Metadata.Labels written over them
containerLabels(info, app) ==
    LET tags == parseTags(info)
    IN  IF tags.err # "" THEN NilMap
        ELSE MakeMap([k \in DOMAIN tags.result \cup DOMAIN app.Labels |->
                        IF k \in DOMAIN app.Labels THEN app.Labels[k]
                        ELSE tags.result[k]])

\* strings.Split(s, sep) for a separator of one character
RECURSIVE SplitFrom(_, _, _)
SplitFrom(s, sep, piece) ==
    IF s = <<>> THEN <<piece>>
    ELSE IF Head(s) = sep THEN <<piece>> \o SplitFrom(Tail(s), sep, <<>>)
    ELSE SplitFrom(Tail(s), sep, Append(piece, Head(s)))

Split(s, sep) == SplitFrom(s, sep, <<>>)

DigitValue(c) ==
    CASE c = "0" -> 0 [] c = "1" -> 1 [] c = "2" -> 2 [] c = "3" -> 3 [] c = "4" -> 4
      [] c = "5" -> 5 [] c = "6" -> 6 [] c = "7" -> 7 [] c = "8" -> 8 [] c = "9" -> 9
      [] OTHER -> -1

\* strconv.ParseUint(s, 10, bitSize): the digits are read from the left;
\* an empty string or another character is a syntax error, a value that
\* does not fit bitSize bits a range error
RECURSIVE ParseDigits(_, _, _)
ParseDigits(s, n, max) ==
    IF s = <<>> THEN [n |-> n, err |-> ""]
    ELSE IF DigitValue(Head(s)) < 0 THEN [n |-> 0, err |-> "invalid syntax"]
    ELSE IF n * 10 + DigitValue(Head(s)) > max
    THEN [n |-> max, err |-> "value out of range"]
    ELSE ParseDigits(Tail(s), n * 10 + DigitValue(Head(s)), max)

ParseUint(s, bitSize) ==
    IF s = <<>> THEN [n |-> 0, err |-> "invalid syntax"]
    ELSE ParseDigits(s, 0, 2^bitSize - 1)

\* (mutation of Endpoint: the ID is the handle alone)
EndpointHandleID(handle, info, port, labels) ==
    [ID |-> handle,
     Target |-> info.ContainerIP \o ":" \o ToString(port),
     Details |-> [Name |-> handle, ContainerID |-> handle, Host |-> info.ContainerIP,
                  Port |-> port, Transport |-> ProtocolTCP, Labels |-> labels]]

\* the observer.Endpoint of one port
Endpoint(handle, info, port, labels) ==
    [ID |-> handle \o ":" \o ToString(port),
     Target |-> info.ContainerIP \o ":" \o ToString(port),
     Details |-> [Name |-> handle, ContainerID |-> handle, Host |-> info.ContainerIP,
                  Port |-> port, Transport |-> ProtocolTCP, Labels |-> labels]]

\* for _, port := range ports: a port that does not parse is skipped
RECURSIVE PortEndpoints(_, _, _, _)
PortEndpoints(handle, info, ports, labels) ==
    IF ports = <<>> THEN <<>>
    ELSE LET port == ParseUint(Head(ports), 16)
             rest == PortEndpoints(handle, info, Tail(ports), labels)
         IN  IF port.err # "" THEN rest
             ELSE <<Endpoint(handle, info, port.n % 2^16, labels)>> \o rest

\* containerEndpoints: nil without the ports property or the application
containerEndpoints(handle, info, cached, plat, ok) ==
    IF "network.ports" \notin DOMAIN info.Properties
    THEN [ret |-> [nil |-> TRUE, items |-> <<>>], apps |-> cached, calls |-> 0]
    ELSE LET ports == Split(info.Properties["network.ports"], ",")
             a == App(info, cached, plat, ok)
         IN  IF a.err # ""
             THEN [ret |-> [nil |-> TRUE, items |-> <<>>], apps |-> a.apps,
                   calls |-> a.calls]
             ELSE [ret |-> [nil |-> FALSE,
                            items |-> PortEndpoints(handle, info, ports,
                                                    containerLabels(info, a.app))],
                   apps |-> a.apps, calls |-> a.calls]

\* obs.containerEndpoints(testHandle, tt.input)
ContainerEndpoints ==
    /\ obs = NoObs
    /\ \E info \in EndpointInfos, ok \in BOOLEAN :
          LET r == containerEndpoints(testHandle, info, apps, platform, ok)
          IN  /\ apps' = r.apps
              /\ obs' = [op |-> "containerEndpoints", handle |-> testHandle,
                         info |-> info, app |-> NoObject,
                         cached |-> InfoToAppID(info).id \in DOMAIN apps,
                         ret |-> r.ret, calls |-> r.calls]
    /\ UNCHANGED <<lifeVars, workers, config, cacheVars, procVars, held, flight, syncVars>>

\* obs.containerLabels(info, app)
ContainerLabels ==
    /\ obs = NoObs
    /\ \E info \in {ContainerInfo(<<>>, lc, "network.app_id" :> testAppID) :
                        lc \in Property("log_config", LogConfigs)},
          v \in ObserverVersions :
          obs' = [op |-> "containerLabels", handle |-> testHandle,
                  info |-> info, app |-> CfObject("app", testAppID, v),
                  cached |-> FALSE,
                  ret |-> containerLabels(info, CfObject("app", testAppID, v)),
                  calls |-> 0]
    /\ UNCHANGED <<lifeVars, workers, config, cacheVars, procVars, held, flight, apps, syncVars>>

\* the caller has the result
observerReturn ==
    /\ obs # NoObs
    /\ obs' = NoObs
    /\ UNCHANGED <<lifeVars, workers, config, cacheVars, procVars, held, flight, apps, syncVars>>

\* A started observer that has found no container yet: g.apps is the empty
\* map SyncApps has made.
InitObserver ==
    /\ config = [Extract |-> defaultExtract, CacheTTL |-> MaxTTL]
    /\ now = 0
    /\ cleanDue = FALSE
    /\ lastClean = -1
    /\ cache = [k \in Keys |-> NoEntry]
    /\ \E v \in ObserverVersions : platform = [k \in Keys |-> v]
    /\ changes = 0
    /\ stored = [k \in Keys |-> NoStored]
    /\ last = NoCall
    /\ InitProc
    /\ InitStarted
    /\ workers = <<>>
    /\ held = NoHeld
    /\ flight = [kind |-> Nil]
    /\ apps = <<>>
    /\ obs = NoObs
    /\ newObserver

NextObserver ==
    \/ ContainerEndpoints
    \/ ContainerLabels
    \/ observerReturn

SpecObserver == InitObserver /\ [][NextObserver]_vars

(***************************************************************************)
(* The Garden observer's goroutines (extension.go): Start and Shutdown,    *)
(* the periodic app sync once.Do starts, ListEndpoints with the App calls  *)
(* it makes through containerEndpoints, and the updateContainerCache       *)
(* goroutines it launches.  g.apps is read and written under g.appMu,      *)
(* g.containers under g.containerMu; g.ctx, g.cancel and g.cf are written  *)
(* by Start and read by the other goroutines with no lock: a read that     *)
(* races with a write sees the old value or the new one, as the steps      *)
(* interleave.  The task evaluates g.ctx.Done() each time it enters its    *)
(* select and waits on that channel and on the ticker.                     *)
(***************************************************************************)
\* g.once.Do(f) runs f
onceDo(ran) == ~ran

\* (mutation of CanLock: the lock is granted while it is held)
CanLockAlways(mu) == TRUE

\* g.appMu.Lock() returns
CanLock(mu) == mu = Nil

Running == ~hist.panicked

\* a container as garden lists it: c.Handle(), c.Info() and its error
Container(handle, state, infoErr, appID) ==
    [handle |-> handle, state |-> state, infoErr |-> infoErr,
     info |-> ContainerInfo("network.ports" :> <<"7">>, <<>>, appID)]

\* what garden.Containers returns
Listings ==
    LET app(id) == "network.app_id" :> id
    IN  {<<Container("h1", "active", FALSE, app("g1")),
           Container("h2", "active", FALSE, app("g1"))>>,
         <<Container("h1", "active", FALSE, app("g1")),
           Container("h2", "active", FALSE, app("g2"))>>,
         <<Container("h1", "stopped", TRUE, app("g2")),
           Container("h2", "active", FALSE, <<>>)>>}

\* the orders in which ranging over containers may deliver the map
Orders(m) ==
    {o \in [1..Cardinality(DOMAIN m) -> DOMAIN m] :
        \A i, j \in DOMAIN o : i # j => o[i] # o[j]}

\* the loop of SyncApps over infos, with g.apps = acc so far; down: the apps
\* whose Applications.Get fails
RECURSIVE SyncAppsLoop(_, _, _, _, _, _)
SyncAppsLoop(infos, acc, fetched, plat, down, cf) ==
    IF infos = <<>>
    THEN [apps |-> acc, err |-> "", fetched |-> fetched, panic |-> FALSE]
    ELSE LET a == InfoToAppID(Head(infos))
         IN  IF a.err # ""
             THEN [apps |-> acc, err |-> a.err, fetched |-> fetched, panic |-> FALSE]
             ELSE IF a.id \in DOMAIN acc
             THEN SyncAppsLoop(Tail(infos), acc, fetched, plat, down, cf)
             ELSE IF cf = Nil
             THEN [apps |-> acc, err |-> "", fetched |-> fetched, panic |-> TRUE]
             ELSE IF a.id \in down
             THEN [apps |-> acc, err |-> "error fetching application",
                   fetched |-> Append(fetched, a.id), panic |-> FALSE]
             ELSE SyncAppsLoop(Tail(infos),
                               (a.id :> Upstream("app", a.id, plat)) @@ acc,
                               Append(fetched, a.id), plat, down, cf)

\* (mutation of SyncApps: the loop runs on the cache as it was, without
\* g.apps = make(...))
SyncAppsNoReset(containers, order, plat, down, cf) ==
    SyncAppsLoop([i \in DOMAIN order |-> containers.m[order[i]]], apps, <<>>,
                 plat, down, cf)

\* SyncApps from g.apps = make(...) on, with the containers it has read
SyncApps(containers, order, plat, down, cf) ==
    SyncAppsLoop([i \in DOMAIN order |-> containers.m[order[i]]], <<>>, <<>>,
                 plat, down, cf)

\* the history of a SyncApps run
Synced(who, r) ==
    [hist EXCEPT !.lastSync = [who |-> who, err |-> r.err, fetched |-> Len(r.fetched)],
                 !.fetches = [id \in AppGUIDs |-> 0],
                 !.stores = [id \in AppGUIDs |-> 0],
                 !.panicked = r.panic]

\* Start up to g.appMu.Lock() in the SyncApps it calls: the context, the
\* garden client, the Cloud Foundry client and containers := g.containers
\* (no other goroutine reads or writes g.containers between the writes of
\* Start and this read except updateContainerCache, which touches nothing
\* else).  ok: NewCfClient succeeds.
observerStart ==
    /\ Running
    /\ starter.state = "idle"
    /\ hist.starts < MaxStarts
    /\ LET gCtx == "ctx" \o ToString(hist.starts + 1)
       IN  \E ok \in BOOLEAN :
              /\ g' = [g EXCEPT !.ctx = gCtx, !.cancel = gCtx,
                                !.cf = IF ok THEN "client" ELSE Nil]
              /\ starter' = IF ok THEN [state |-> "Lock", containers |-> g.containers]
                            ELSE starter
              /\ hist' = [hist EXCEPT !.starts = @ + 1]
    /\ UNCHANGED <<cancelled, appMu, task, listers, pending, apps>>
    /\ UNCHANGED <<lifeVars, workers, config, cacheVars, procVars, held, flight, obs>>

\* SyncApps called by Start, from g.appMu.Lock() to its return, and the
\* rest of Start: the error returned, or once.Do and nil
startSync ==
    /\ Running
    /\ starter.state = "Lock"
    /\ CanLock(appMu)
    /\ \E order \in Orders(starter.containers.m), down \in SUBSET AppGUIDs :
          LET r == SyncApps(starter.containers, order, platform, down, g.cf)
              first == r.err = "" /\ ~r.panic /\ onceDo(g.once)
          IN  /\ apps' = r.apps
              /\ g' = [g EXCEPT !.once = @ \/ first]
              /\ task' = IF first
                         THEN [state |-> "waiting", containers |-> NilMap,
                               ctx |-> g.ctx]
                         ELSE task
              /\ hist' = [Synced("start", r) EXCEPT
                             !.started = @ \/ r.err = "",
                             !.launched = IF first THEN @ + 1 ELSE @,
                             !.launchCtx = IF first THEN g.ctx ELSE @]
    /\ starter' = [state |-> "idle", containers |-> NilMap]
    /\ UNCHANGED <<cancelled, appMu, listers, pending>>
    /\ UNCHANGED <<lifeVars, workers, config, cacheVars, procVars, held, flight, obs>>

\* g.cancel(); return nil
observerShutdown ==
    /\ Running
    /\ cancelled' = IF g.cancel = "noop" THEN cancelled ELSE cancelled \cup {g.cancel}
    /\ UNCHANGED <<g, appMu, starter, task, listers, pending, hist, apps>>
    /\ UNCHANGED <<lifeVars, workers, config, cacheVars, procVars, held, flight, obs>>

\* case <-cacheRefreshTicker.C: the task calls SyncApps, which reads
\* g.containers.  select takes any case that is ready.
taskTick ==
    /\ Running
    /\ task.state = "waiting"
    /\ task' = [task EXCEPT !.state = "syncing", !.containers = g.containers]
    /\ UNCHANGED <<g, cancelled, appMu, starter, listers, pending, hist, apps>>
    /\ UNCHANGED <<lifeVars, workers, config, cacheVars, procVars, held, flight, obs>>

\* SyncApps called by the task, from g.appMu.Lock() to its return; an error
\* is logged, and the loop goes on to select again on g.ctx.Done() and the
\* ticker
taskSync ==
    /\ Running
    /\ task.state = "syncing"
    /\ CanLock(appMu)
    /\ \E order \in Orders(task.containers.m), down \in SUBSET AppGUIDs :
          LET r == SyncApps(task.containers, order, platform, down, g.cf)
          IN  /\ apps' = r.apps
              /\ hist' = Synced("task", r)
    /\ task' = [state |-> "waiting", containers |-> NilMap, ctx |-> g.ctx]
    /\ UNCHANGED <<g, cancelled, appMu, starter, listers, pending>>
    /\ UNCHANGED <<lifeVars, workers, config, cacheVars, procVars, held, flight, obs>>

\* case <-g.ctx.Done(): return
taskExit ==
    /\ Running
    /\ task.state = "waiting"
    /\ task.ctx \in cancelled
    /\ task' = [task EXCEPT !.state = "exited"]
    /\ UNCHANGED <<g, cancelled, appMu, starter, listers, pending, hist, apps>>
    /\ UNCHANGED <<lifeVars, workers, config, cacheVars, procVars, held, flight, obs>>

\* the lister after the container at the head of its list: the next turn of
\* the loop, or after the last one go g.updateContainerCache(infos) and the
\* return
Advanced(lister, add) ==
    [state |-> IF Len(lister.todo) > 1 THEN "loop" ELSE "returned",
     todo |-> Tail(lister.todo),
     infos |-> IF add
               THEN (Head(lister.todo).handle :> Head(lister.todo).info) @@ lister.infos
               ELSE lister.infos]

\* the goroutines launched and not yet run, after lister has taken a step
Launched(lister) ==
    IF lister.state = "returned" THEN pending \cup {lister.infos} ELSE pending

\* the snapshot of the last call to return, after lister has taken a step
Latest(lister) ==
    IF lister.state = "returned" THEN MakeMap(lister.infos) ELSE hist.latest

\* ListEndpoints up to its loop, called by the next goroutine that has not
\* called it.  ok: garden.Containers succeeds.
ListEndpoints ==
    /\ Running
    /\ hist.started
    /\ \E l \in Listers, ok \in BOOLEAN, listing \in Listings :
          /\ listers[l].state = "idle"
          /\ \A k \in Listers : k < l => listers[k].state # "idle"
          /\ listers' = [listers EXCEPT ![l] =
                           IF ok THEN [IdleLister EXCEPT !.state = "loop", !.todo = listing]
                           ELSE [IdleLister EXCEPT !.state = "failed"]]
    /\ UNCHANGED <<g, cancelled, appMu, starter, task, pending, hist, apps>>
    /\ UNCHANGED <<lifeVars, workers, config, cacheVars, procVars, held, flight, obs>>

\* one turn of the loop of ListEndpoints, as far as App's look into g.apps:
\* the container is skipped, or has no endpoints, or its application is
\* cached, or App goes on to fetch it with g.appMu held
listContainer ==
    /\ Running
    /\ \E l \in Listers :
          /\ listers[l].state = "loop"
          /\ LET c == Head(listers[l].todo)
                 a == InfoToAppID(c.info)
                 skip == Advanced(listers[l], FALSE)
                 next == Advanced(listers[l], TRUE)
             IN  IF c.infoErr \/ c.state # "active"
                 THEN /\ listers' = [listers EXCEPT ![l] = skip]
                      /\ pending' = Launched(skip)
                      /\ hist' = [hist EXCEPT !.latest = Latest(skip)]
                      /\ appMu' = appMu
                 ELSE IF "network.ports" \notin DOMAIN c.info.Properties \/ a.err # ""
                 THEN /\ listers' = [listers EXCEPT ![l] = next]
                      /\ pending' = Launched(next)
                      /\ hist' = [hist EXCEPT !.latest = Latest(next)]
                      /\ appMu' = appMu
                 ELSE /\ CanLock(appMu)
                      /\ IF a.id \in DOMAIN apps
                         THEN /\ listers' = [listers EXCEPT ![l] = next]
                              /\ pending' = Launched(next)
                              /\ hist' = [hist EXCEPT !.latest = Latest(next)]
                              /\ appMu' = appMu
                         ELSE /\ listers' = [listers EXCEPT ![l].state = "fetch"]
                              /\ appMu' = "list" \o ToString(l)
                              /\ UNCHANGED <<pending, hist>>
    /\ UNCHANGED <<g, cancelled, starter, task, apps>>
    /\ UNCHANGED <<lifeVars, workers, config, cacheVars, procVars, held, flight, obs>>

\* App after a miss: g.cf.Applications.Get, g.apps[appID] = app, and the
\* deferred Unlock.  ok: the platform call succeeds.
listFetch ==
    /\ Running
    /\ \E l \in Listers :
          /\ listers[l].state = "fetch"
          /\ LET id == InfoToAppID(Head(listers[l].todo).info).id
                 next == Advanced(listers[l], TRUE)
             IN  IF g.cf = Nil
                 THEN /\ hist' = [hist EXCEPT !.panicked = TRUE]
                      /\ UNCHANGED <<listers, appMu, apps, pending>>
                 ELSE \E ok \in BOOLEAN :
                         /\ apps' = IF ok THEN (id :> Upstream("app", id, platform)) @@ apps
                                    ELSE apps
                         /\ appMu' = Nil
                         /\ listers' = [listers EXCEPT ![l] = next]
                         /\ pending' = Launched(next)
                         /\ hist' = [hist EXCEPT
                               !.latest = Latest(next),
                               !.fetches[id] = IF @ < 2 THEN @ + 1 ELSE @,
                               !.stores[id] = IF ok THEN @ + 1 ELSE @]
    /\ UNCHANGED <<g, cancelled, starter, task>>
    /\ UNCHANGED <<lifeVars, workers, config, cacheVars, procVars, held, flight, obs>>

\* a launched goroutine runs: g.containers = infos, under g.containerMu
updateContainerCache ==
    /\ Running
    /\ \E p \in pending :
          /\ g' = [g EXCEPT !.containers = MakeMap(p)]
          /\ pending' = pending \ {p}
    /\ UNCHANGED <<cancelled, appMu, starter, task, listers, hist, apps>>
    /\ UNCHANGED <<lifeVars, workers, config, cacheVars, procVars, held, flight, obs>>

\* The observer as newObserver has built it; the platform serves the
\* applications of the containers.
InitSync ==
    /\ config = [Extract |-> defaultExtract, CacheTTL |-> MaxTTL]
    /\ now = 0
    /\ cleanDue = FALSE
    /\ lastClean = -1
    /\ cache = [k \in Keys |-> NoEntry]
    /\ platform = [k \in {objCacheName("app", id) : id \in AppGUIDs} |-> 1]
    /\ changes = 0
    /\ stored = [k \in Keys |-> NoStored]
    /\ last = NoCall
    /\ InitProc
    /\ InitStarted
    /\ workers = <<>>
    /\ held = NoHeld
    /\ flight = [kind |-> Nil]
    /\ obs = NoObs
    /\ apps = <<>>
    /\ newObserver

NextSync ==
    \/ observerStart
    \/ startSync
    \/ observerShutdown
    \/ taskTick
    \/ taskSync
    \/ taskExit
    \/ ListEndpoints
    \/ listContainer
    \/ listFetch
    \/ updateContainerCache

SpecSync == InitSync /\ [][NextSync]_vars

\* The ticker goes on firing, a goroutine that can take its lock or holds
\* it goes on, and select, which chooses at random among the cases that are
\* ready, does not pass over a closed Done channel for ever.
SpecSyncFair ==
    /\ InitSync
    /\ [][NextSync]_vars
    /\ SF_vars(taskExit)
    /\ WF_vars(taskTick)
    /\ WF_vars(taskSync)
    /\ WF_vars(listFetch)

(***************************************************************************)
(* Claims about the resolver and its cache (specification Spec).           *)
(***************************************************************************)
Age(call) == call.at - call.prior.ts

Resolved == last # NoCall

\* C1: cache round-trip.  A resolve of a key under which an earlier resolve
\* has stored an object, made while the TTL of that entry has not elapsed,
\* returns an object equal to the stored one, without error and without a
\* call of the platform client.
C1_CacheRoundTrip ==
    (Resolved /\ last.prior # NoStored /\ Age(last) <= config.CacheTTL)
        => /\ last.err = ""
           /\ last.obj = last.prior.obj
           /\ last.calls = 0

\* C1 witness: a hit on an entry stored earlier, while the platform already
\* serves another version of the object.
C1_Witness ==
    /\ Resolved /\ last.prior # NoStored
    /\ Age(last) >= 1 /\ Age(last) <= config.CacheTTL
    /\ last.calls = 0 /\ last.obj = last.prior.obj
    /\ last.obj # Upstream(last.kind, last.id, platform)

\* The entry a resolve writes for the object it has fetched.
Replaced(call) ==
    call.after = [data |-> serialize(call.fetched).data, ts |-> call.at]

FetchedAndEncoded(call) ==
    call.fetched # NoObject /\ serialize(call.fetched).err = ""

C6_CacheWriteBestEffort ==
    (Resolved /\ last.calls = 1 /\ last.fetched # NoObject)
        => (last.err = "" /\ last.obj = last.fetched)

(***************************************************************************)
(* Claims about the enrichment of resources (specification SpecEnrich).    *)
(***************************************************************************)
\* The attribute keys of each group, as processAppID, addSpaceMetadata and
\* addOrgMetadata can write them for the objects of the platform.
AppNameKey == cfAttrNSPrefix \o "app.name"

AppMetadataKeys ==
    UNION { MapKeys(cfAttrNSPrefix \o "app.labels.", Labels("app", v))
            \cup MapKeys(cfAttrNSPrefix \o "app.annotations.", Annotations("app", v))
            : v \in Versions }

\* the word is spelled "lifecyle" in the keys the handler writes
AppStateLifecycleKeys ==
    {cfAttrNSPrefix \o "app.state"}
    \cup UNION { {cfAttrNSPrefix \o "app." \o w \o ".type",
                  cfAttrNSPrefix \o "app." \o w \o ".stack"}
                 \cup {cfAttrNSPrefix \o "app." \o w \o ".buildpacks." \o ToString(i)
                       : i \in 0..3}
                 : w \in {"lifecyle", "lifecycle"} }

AppDatesKeys == {cfAttrNSPrefix \o "app.created", cfAttrNSPrefix \o "app.updated"}

GroupKeys(kind) ==
    {cfAttrNSPrefix \o kind \o ".name"}
    \cup UNION { MapKeys(cfAttrNSPrefix \o kind \o ".labels.", Labels(kind, v))
                 \cup MapKeys(cfAttrNSPrefix \o kind \o ".annotations.", Annotations(kind, v))
                 : v \in Versions }

Returned == pc = "returned"

AllMetadata == config.Extract.App /\ config.Extract.Space /\ config.Extract.Org

\* the resource had a string app id when processResource was called
HadAppID == getAppID(run.before) # ""

\* C3: a resource with an app id, enriched with app, space and org metadata
\* enabled from an empty cache, makes at most one platform call per object
\* at any point of the enrichment; once processResource has returned nil it
\* has made exactly one call for the application, one for the space and one
\* for the organization, by more cache lookups than that, and has written
\* the name, label and annotation keys of the three groups.
C3_CascadeFetchCount ==
    (run.cold /\ AllMetadata /\ HadAppID /\ run.pass >= 1)
        => /\ \A k \in Kinds : run.calls[k] <= 1
           /\ (Returned /\ run.ret = "nil")
                 => /\ run.calls = [k \in Kinds |-> 1]
                    /\ run.gets > 3
                    /\ \A k \in Kinds :
                          /\ cfAttrNSPrefix \o k \o ".name" \in run.written
                          /\ MapKeys(cfAttrNSPrefix \o k \o ".labels.", Labels(k, 1))
                                \subseteq run.written
                          /\ MapKeys(cfAttrNSPrefix \o k \o ".annotations.",
                                     Annotations(k, 1)) \subseteq run.written
                          /\ cfAttrNSPrefix \o k \o ".name" \in DOMAIN resource

C3_Witness ==
    /\ run.cold /\ AllMetadata /\ HadAppID
    /\ Returned /\ run.ret = "nil"
    /\ run.calls = [k \in Kinds |-> 1]
    /\ run.gets >= 7

\* C4: when a lookup made during processResource has failed, processResource
\* returns an error.
C4_FailureAborts ==
    (Returned /\ run.failed) => run.ret = "err"

\* C5: once the enrichment of a resource of the batch has failed, no further
\* resource of the batch is enriched and the batch call returns an error.
C5_BatchAbortsOnFailure ==
    /\ (pc # "idle") => ~run.earlierErr
    /\ (pc = "idle" /\ run.earlierErr) => run.batchRet = "err"

C8_AppPolicyGating ==
    (run.path = "app")
        => /\ (run.written # {} \/ run.ret = "nil") => AppNameKey \in run.written
           /\ ~config.Extract.App => run.written \cap AppMetadataKeys = {}
           /\ ~config.Extract.AppStateLifecycle
                 => run.written \cap AppStateLifecycleKeys = {}
           /\ ~config.Extract.AppDates => run.written \cap AppDatesKeys = {}
           /\ (run.ret = "nil" /\ config.Extract.App)
                 => run.written \cap AppMetadataKeys # {}
           /\ (run.ret = "nil" /\ config.Extract.AppStateLifecycle)
                 => cfAttrNSPrefix \o "app.state" \in run.written
           /\ (run.ret = "nil" /\ config.Extract.AppDates)
                 => AppDatesKeys \subseteq run.written

C8_Witness ==
    /\ run.path = "app" /\ Returned /\ run.ret = "nil"
    /\ ~config.Extract.App /\ config.Extract.AppStateLifecycle
    /\ ~config.Extract.AppDates
    /\ AppNameKey \in run.written
    /\ run.written \cap AppStateLifecycleKeys # {}
    /\ run.written \cap (AppMetadataKeys \cup AppDatesKeys) = {}

\* C9: with the space flag off, no space or org key is written and no
\* space or organization is fetched, whatever the org flag and the path.
C9_SpaceGatesOrg ==
    ~config.Extract.Space
        => /\ run.written \cap (GroupKeys("space") \cup GroupKeys("org")) = {}
           /\ run.calls["space"] = 0
           /\ run.calls["org"] = 0
           /\ pc \notin {"GetAppSpace", "GetSpaceName", "GetSpaceMetadata",
                         "GetSpaceOrg", "GetOrgName", "GetOrgMetadata"}

C9_Witness ==
    /\ ~config.Extract.Space /\ config.Extract.Org
    /\ run.path = "app" /\ Returned /\ run.ret = "nil"
    /\ AppNameKey \in run.written

\* the resource carried neither identity attribute when processResource was
\* called
NoIdentity ==
    /\ run.pass >= 1
    /\ AppIDAttributeKeyAssociation \notin DOMAIN run.before
    /\ SpaceIDAttributeKeyAssociation \notin DOMAIN run.before

\* C10: a resource with neither identity attribute keeps exactly its
\* attributes, processResource returns nil, and neither the platform nor
\* the cache is consulted.
C10_NoIdentityUnchanged ==
    NoIdentity
        => /\ resource = run.before
           /\ run.ret # "err"
           /\ Returned => run.ret = "nil"
           /\ run.calls = NoCalls
           /\ run.gets = 0
           /\ run.written = {}
           /\ pc \in {"processResource", "returned"}

C10_Witness ==
    /\ NoIdentity /\ Returned /\ run.ret = "nil"
    /\ resource = run.before
    /\ DOMAIN resource # {}

\* the resource carried a non-empty string app id when processResource was
\* called
HadAppIDAttr ==
    /\ run.pass >= 1
    /\ AppIDAttributeKeyAssociation \in DOMAIN run.before
    /\ run.before[AppIDAttributeKeyAssociation][1] = "Str"
    /\ run.before[AppIDAttributeKeyAssociation][2] # ""

\* C11: for a resource with a non-empty app id only the app path runs: the
\* space path is never entered, not even after an error of the app path; a
\* space is only resolved by the id GetAppSpace returned for the app, never
\* by the resource's space id attribute.  The space path is entered only for
\* resources without such an app id.
C11_OnePathPerResource ==
    /\ HadAppIDAttr
          => /\ run.path \in {"none", "app"}
             /\ spaceID # ""
                   => spaceID = Upstream("app", getAppID(run.before), platform).Parent
             /\ run.ret = "err" => (run.path = "app" /\ Returned)
    /\ run.path = "space" => ~HadAppIDAttr

C11_Witness ==
    /\ HadAppIDAttr
    /\ SpaceIDAttributeKeyAssociation \in DOMAIN run.before
    /\ getSpaceID(run.before) # ""
    /\ Returned /\ run.ret = "nil" /\ run.path = "app"
    /\ cfAttrNSPrefix \o "space.name" \in run.written
    /\ spaceID # getSpaceID(run.before)

\* attrs holds the name of obj under <kind>.name
HasName(attrs, kind, obj) ==
    /\ cfAttrNSPrefix \o kind \o ".name" \in DOMAIN attrs
    /\ attrs[cfAttrNSPrefix \o kind \o ".name"] = Str(obj.Name)

\* attrs holds one <kind>.labels.<k> / <kind>.annotations.<k> per pair of
\* obj, with the pair's value
HasMetadata(attrs, kind, obj) ==
    /\ \A k \in DOMAIN obj.Labels :
          /\ cfAttrNSPrefix \o kind \o ".labels." \o k \in DOMAIN attrs
          /\ attrs[cfAttrNSPrefix \o kind \o ".labels." \o k] = Str(obj.Labels[k])
    /\ \A k \in DOMAIN obj.Annotations :
          /\ cfAttrNSPrefix \o kind \o ".annotations." \o k \in DOMAIN attrs
          /\ attrs[cfAttrNSPrefix \o kind \o ".annotations." \o k]
                = Str(obj.Annotations[k])

\* the resource had no app id but a space id, and the space flag is on
OnSpacePath ==
    /\ run.pass >= 1
    /\ getAppID(run.before) = ""
    /\ getSpaceID(run.before) # ""
    /\ config.Extract.Space

\* C12: on the space path the space is resolved by the resource's space id
\* and no application is fetched; when processResource has returned and no
\* lookup failed, the resource holds the space's name, labels and
\* annotations and, with the org flag on, those of the space's parent
\* organization; with the org flag off no org key is written and no
\* organization is fetched.
C12_SpacePath ==
    OnSpacePath
        => /\ run.calls["app"] = 0
           /\ run.path \in {"none", "space"}
           /\ run.written \cap GroupKeys("app") = {}
           /\ spaceID \in {"", getSpaceID(run.before)}
           /\ ~config.Extract.Org
                 => (run.calls["org"] = 0 /\ run.written \cap GroupKeys("org") = {})
           /\ (Returned /\ ~run.failed)
                 => LET sp == Upstream("space", getSpaceID(run.before), platform)
                    IN  /\ run.ret = "nil"
                        /\ HasName(resource, "space", sp)
                        /\ HasMetadata(resource, "space", sp)
                        /\ config.Extract.Org
                              => /\ HasName(resource, "org",
                                            Upstream("org", sp.Parent, platform))
                                 /\ HasMetadata(resource, "org",
                                                Upstream("org", sp.Parent, platform))

C12_Witness ==
    /\ OnSpacePath /\ config.Extract.Org
    /\ Returned /\ ~run.failed /\ run.ret = "nil"
    /\ run.calls = [k \in Kinds |-> IF k = "app" THEN 0 ELSE 1]
    /\ HasMetadata(resource, "org", Upstream("org", "g1", platform))

\* C13: with the default policy (only the app metadata flag on), once
\* processResource has returned nil for a resource with a non-empty app id,
\* the resource holds app.name with the application's name and one
\* app.labels.<k> / app.annotations.<k> per pair with its value; the keys it
\* has gained are exactly those, and none of them is a space or org key.
C13_AppPathResult ==
    (HadAppIDAttr /\ config.Extract = defaultExtract /\ Returned /\ run.ret = "nil")
        => LET app == Upstream("app", getAppID(run.before), platform)
           IN  /\ HasName(resource, "app", app)
               /\ HasMetadata(resource, "app", app)
               /\ DOMAIN resource =
                     DOMAIN run.before
                     \cup {AppNameKey}
                     \cup MapKeys(cfAttrNSPrefix \o "app.labels.", app.Labels)
                     \cup MapKeys(cfAttrNSPrefix \o "app.annotations.", app.Annotations)
               /\ DOMAIN resource \cap (GroupKeys("space") \cup GroupKeys("org")) = {}

C13_Witness ==
    /\ HadAppIDAttr /\ config.Extract = defaultExtract
    /\ Returned /\ run.ret = "nil" /\ run.pass = 1
    /\ resource[AppNameKey] = Str("svc1")
    /\ resource[cfAttrNSPrefix \o "app.labels.team"] = Str("app-x")
    /\ resource[cfAttrNSPrefix \o "app.annotations.owner"] = Str("app-o1")

\* C14: with the state/lifecycle flag on, once processResource has returned
\* nil on the app path the resource holds app.state, app.lifecycle.type,
\* app.lifecycle.stack and, for n buildpacks, exactly the keys
\* app.lifecycle.buildpacks.0 .. n-1, key i holding the i-th buildpack.
C14_LifecycleKeys ==
    (HadAppIDAttr /\ config.Extract.AppStateLifecycle /\ Returned /\ run.ret = "nil")
        => LET app == Upstream("app", getAppID(run.before), platform)
               lc == cfAttrNSPrefix \o "app.lifecycle."
               n == Len(app.Buildpacks)
           IN  /\ cfAttrNSPrefix \o "app.state" \in DOMAIN resource
               /\ resource[cfAttrNSPrefix \o "app.state"] = Str(app.State)
               /\ lc \o "type" \in DOMAIN resource
               /\ resource[lc \o "type"] = Str(app.LifecycleType)
               /\ lc \o "stack" \in DOMAIN resource
               /\ resource[lc \o "stack"] = Str(app.Stack)
               /\ \A i \in 0..3 :
                     (lc \o "buildpacks." \o ToString(i) \in DOMAIN resource) <=> (i < n)
               /\ \A i \in 0..(n - 1) :
                     resource[lc \o "buildpacks." \o ToString(i)] = Str(app.Buildpacks[i + 1])

\* every key the enrichment can write; all of them start with cfAttrNSPrefix
NamespaceKeys ==
    GroupKeys("app") \cup GroupKeys("space") \cup GroupKeys("org")
    \cup AppStateLifecycleKeys \cup AppDatesKeys

\* the attributes of attrs outside the cloudfoundry. namespace
Foreign(attrs) == [k \in DOMAIN attrs \ NamespaceKeys |-> attrs[k]]

\* C15: during and after any sequence of enrichments of a resource, every
\* key it had when a call started is still present, the keys written are
\* keys of the cloudfoundry. namespace, every other attribute has the value
\* it had when the call started, and the attributes outside the namespace
\* are those of the resource as the batch delivered it.
C15_OnlyNamespaceKeysChange ==
    (run.pass >= 1)
        => /\ DOMAIN run.before \subseteq DOMAIN resource
           /\ run.written \subseteq NamespaceKeys
           /\ DOMAIN resource \ DOMAIN run.before \subseteq run.written
           /\ \A k \in DOMAIN run.before \ run.written : resource[k] = run.before[k]
           /\ Foreign(resource) = Foreign(run.before)
           /\ Foreign(resource) \in ResourceInputs

C15_Witness ==
    /\ run.pass = 2 /\ Returned /\ run.ret = "nil"
    /\ run.written # {}
    /\ "host" \in DOMAIN resource
    /\ resource["host"] = Str("h1")
    /\ resource[AppIDAttributeKeyAssociation] = Str("g1")
    /\ AppNameKey \in DOMAIN run.before

(***************************************************************************)
(* Claims about the processor's life (specifications SpecLifecycle and     *)
(* SpecLifecycleFair).                                                     *)
(***************************************************************************)
\* C16: when the caller of a batch has cancelled the batch's context while
\* a platform fetch of that batch was under way, the fetch returns with a
\* cancellation error.
C16_CallerCancelAborts ==
    (batch.state = "returned" /\ batch.callerDone) => batch.fetch = "canceled"

\* C17: the client and the clean-up goroutine of its cache are created by
\* Start and by nothing else; a platform fetch that returns after Shutdown
\* has returned nil returns a cancellation error; and once Shutdown has
\* returned nil the clean-up goroutine is eventually not running and no
\* fetch is left in flight.
C17_ShutdownCancels ==
    /\ [][cfCli' # cfCli => (startRet = "" /\ startRet' = "nil")]_vars
    /\ [][(cleaner = "none" /\ cleaner' # "none") => (startRet = "" /\ startRet' # "")]_vars
    /\ []((batch.state = "returned" /\ batch.afterShutdown) => batch.fetch = "canceled")
    /\ (shutdownRet = "nil") ~> (cleaner # "running" /\ batch.state # "fetching")

C17_Witness ==
    /\ startRet = "nil" /\ shutdownRet = "nil"
    /\ cfCli # NoClient
    /\ batch.state = "returned" /\ batch.afterShutdown
    /\ batch.fetch = "canceled"
    /\ cleaner = "exited"

\* C19: when Start has returned nil the processor holds a client.
C19_StartNeedsAuthScheme ==
    (startRet = "nil") => cfCli # NoClient

\* the two fields of each scheme, in the order of the checks: name and value
SchemeFields(c) ==
    CASE c.Auth.Type = authTypeUserPass ->
           <<[name |-> "username", value |-> c.Auth.Username],
             [name |-> "password", value |-> c.Auth.Password]>>
      [] c.Auth.Type = authTypeClientCredentials ->
           <<[name |-> "client_id", value |-> c.Auth.ClientID],
             [name |-> "client_secret", value |-> c.Auth.ClientSecret]>>
      [] c.Auth.Type = authTypeToken ->
           <<[name |-> "access_token", value |-> c.Auth.AccessToken],
             [name |-> "refresh_token", value |-> c.Auth.RefreshToken]>>
      [] OTHER -> <<>>

\* C20: Validate returns nil exactly when the endpoint is set, the auth type
\* is one of the three schemes and both fields of that scheme are set;
\* otherwise it returns the error of the first failing check in the order
\* endpoint, auth type, first field, second field, and the error of a
\* missing field names that field and the scheme.
C20_ValidateOrder ==
    (validateRet # "")
        => LET c == cloudFoundry
               f == SchemeFields(c)
               known == c.Auth.Type \in AuthTypes
           IN  /\ (validateRet = "nil")
                     <=> /\ c.Endpoint # ""
                         /\ known
                         /\ f[1].value # ""
                         /\ f[2].value # ""
               /\ c.Endpoint = ""
                     => validateRet = "CloudFoundry.Endpoint must be specified"
               /\ (c.Endpoint # "" /\ c.Auth.Type = "")
                     => validateRet = "CloudFoundry.Auth.Type must be specified"
               /\ (c.Endpoint # "" /\ c.Auth.Type # "" /\ ~known)
                     => validateRet = authTypeError(c.Auth.Type)
               /\ (c.Endpoint # "" /\ known /\ f[1].value = "")
                     => validateRet = f[1].name \o " is required when using auth_type: "
                                      \o c.Auth.Type
               /\ (c.Endpoint # "" /\ known /\ f[1].value # "" /\ f[2].value = "")
                     => validateRet = f[2].name \o " is required when using auth_type: "
                                      \o c.Auth.Type

C20_Witness ==
    /\ cloudFoundry.Endpoint # ""
    /\ cloudFoundry.Auth.Type = authTypeUserPass
    /\ cloudFoundry.Auth.Username # ""
    /\ cloudFoundry.Auth.Password = ""
    /\ cloudFoundry.Auth.ClientSecret # ""
    /\ validateRet = "password is required when using auth_type: user_pass"

(***************************************************************************)
(* Claims about batches in flight together (specification SpecConcurrent). *)
(***************************************************************************)
\* The attributes a resource has after an enrichment in which every lookup
\* succeeded, for a policy without the state/lifecycle group: a function of
\* the resource, the policy and the platform's data alone.
Expected(attrs, cfg, plat) ==
    LET appID == getAppID(attrs)
        onApp == appID # ""
        app == Upstream("app", appID, plat)
        sid == IF onApp THEN app.Parent ELSE getSpaceID(attrs)
        withSpace == cfg.Extract.Space /\ sid # ""
        sp == Upstream("space", sid, plat)
        org == Upstream("org", sp.Parent, plat)
        a1 == IF onApp THEN PutStr(attrs, cfAttrNSPrefix \o "app.name", app.Name)
              ELSE attrs
        a2 == IF onApp /\ cfg.Extract.App
              THEN PutStrs(PutStrs(a1, cfAttrNSPrefix \o "app.labels.", app.Labels),
                           cfAttrNSPrefix \o "app.annotations.", app.Annotations)
              ELSE a1
        a3 == IF onApp /\ cfg.Extract.AppDates
              THEN PutStr(PutStr(a2, cfAttrNSPrefix \o "app.created",
                                 TimeString(app.CreatedAt)),
                          cfAttrNSPrefix \o "app.updated", TimeString(app.UpdatedAt))
              ELSE a2
        a4 == IF withSpace
              THEN PutStrs(PutStrs(PutStr(a3, cfAttrNSPrefix \o "space.name", sp.Name),
                                   cfAttrNSPrefix \o "space.labels.", sp.Labels),
                           cfAttrNSPrefix \o "space.annotations.", sp.Annotations)
              ELSE a3
    IN  IF withSpace /\ cfg.Extract.Org
        THEN PutStrs(PutStrs(PutStr(a4, cfAttrNSPrefix \o "org.name", org.Name),
                             cfAttrNSPrefix \o "org.labels.", org.Labels),
                     cfAttrNSPrefix \o "org.annotations.", org.Annotations)
        ELSE a4

\* C18: with the platform's data unchanged, a resource whose enrichment met
\* no failed lookup ends with the attributes determined by the resource and
\* the policy alone, whatever was enriched before it, whatever the cache
\* held and however the resolves of other batches and the clean-up sweep
\* were interleaved with its lookups.
C18_OrderIndependent ==
    (run.pass >= 1 /\ Returned /\ ~run.failed)
        => resource = Expected(run.before, config, platform)

\* the cache was empty when the call started, yet the space was served from
\* the cache: it was put there by another batch in the meantime
C18_Witness ==
    /\ run.pass >= 1 /\ Returned /\ ~run.failed /\ run.ret = "nil"
    /\ run.cold
    /\ run.path = "app"
    /\ run.calls["app"] = 1
    /\ run.calls["space"] = 0
    /\ resource = Expected(run.before, config, platform)
    /\ cfAttrNSPrefix \o "org.labels.team" \in DOMAIN resource

(***************************************************************************)
(* Claims about failures, keys and copies (specifications Spec and         *)
(* SpecCaller).                                                            *)
(***************************************************************************)
\* C21: no internal retry.  One resolve calls the platform client at most
\* once; when that call fails, the resolve returns the error and no object,
\* without a second attempt.
C21_NoInternalRetry ==
    Resolved =>
        /\ last.calls <= 1
        /\ (last.calls = 1 /\ last.fetched = NoObject)
              => (last.err = "could not retrieve" /\ last.obj = NoObject)

\* C21 witness: a resolve whose one call of the platform client failed.
C21_Witness ==
    /\ Resolved /\ last.calls = 1
    /\ last.fetched = NoObject /\ last.err = "could not retrieve"

\* the ids the key construction is compared on
IDSamples == {"g1", "g2", "app:g1", "g1:app", ""}

\* C23: keys are "<kind>:<id>".  Different (kind, id) pairs have different
\* keys; every entry in the cache is the one the last storing resolve of its
\* own kind and id wrote, and holds an object of that kind and id; a resolve
\* that succeeds returns an object of the kind and id asked for.
C23_KeySeparation ==
    /\ \A k1 \in Kinds, k2 \in Kinds, i1 \in IDSamples, i2 \in IDSamples :
          objCacheName(k1, i1) = objCacheName(k2, i2) => (k1 = k2 /\ i1 = i2)
    /\ \A kind \in Kinds, id \in IDs :
          LET key == objCacheName(kind, id)
          IN  cache[key] # NoEntry
                 => /\ stored[key].obj.kind = kind
                    /\ stored[key].obj.GUID = id
                    /\ cache[key] = [data |-> serialize(stored[key].obj).data,
                                     ts |-> stored[key].ts]
    /\ (Resolved /\ last.err = "")
          => (last.obj.kind = last.kind /\ last.obj.GUID = last.id)

\* C23 witness: an application, a space and an organization with the same
\* id are cached at once, and a resolve has just hit one of the entries.
C23_Witness ==
    /\ \A kind \in Kinds : cache[objCacheName(kind, "g1")] # NoEntry
    /\ Resolved /\ last.calls = 0 /\ last.err = ""
    /\ last.obj.kind = last.kind

\* C24: resolved objects are value copies.  Once a caller has written to the
\* object a resolve returned, every cache entry is still the encoding of
\* the object that was fetched for it, and a later resolve of the same key
\* returns the stored or a newly fetched object, never the caller's.
C24_ValueCopies ==
    held.mutated =>
        /\ \A kind \in Kinds, id \in IDs :
              LET key == objCacheName(kind, id)
              IN  cache[key] # NoEntry
                     => /\ cache[key].data = serialize(stored[key].obj).data
                        /\ deserialize(cache[key].data, kind).result # held.obj
        /\ (held.later /\ last.key = held.key /\ last.err = "")
              => /\ last.obj # held.obj
                 /\ last.obj = IF last.calls = 0 THEN last.prior.obj
                               ELSE last.fetched

\* C24 witness: after the caller has written to its object, a resolve of
\* the same key hits the cache and returns the object as it was stored.
C24_Witness ==
    /\ held.mutated /\ held.later
    /\ last.key = held.key /\ last.calls = 0 /\ last.err = ""
    /\ last.obj = last.prior.obj
    /\ last.obj # held.obj
    /\ last.obj.Name # "tampered"

\* a step that is one resolve (or leaves the state as it is)
ResolveStep == now' = now /\ cleanDue' = cleanDue /\ changes' = changes

\* C25: a serialization failure does not corrupt the cache.  A resolve
\* whose fetched object cannot be encoded leaves every entry of the cache,
\* the one under its own key included, exactly as it was.
C25_EncodeFailureKeepsCache ==
    [][(ResolveStep /\ last'.key # Nil /\ last'.err = "could not encode")
          => cache' = cache]_vars

\* C25 witness: an encoding failure while other entries are cached.
C25_Witness ==
    /\ Resolved /\ last.err = "could not encode"
    /\ last.fetched # NoObject
    /\ last.after = NoEntry
    /\ \E k \in Keys \ {last.key} : cache[k] # NoEntry

\* C30: failures are not cached.  A resolve whose call of the platform
\* client failed leaves no entry under its key and the cache as it was, and
\* the next resolve of the same key calls the platform client again.
C30_FailuresNotCached ==
    [][/\ (ResolveStep /\ last'.key # Nil /\ last'.err = "could not retrieve")
            => (cache' = cache /\ cache'[last'.key] = NoEntry)
       /\ (ResolveStep /\ last.key # Nil /\ last.err = "could not retrieve"
           /\ last'.key = last.key)
            => last'.calls = 1]_vars

\* C30 witness: a failed call while other entries are cached.
C30_Witness ==
    /\ Resolved /\ last.err = "could not retrieve"
    /\ last.calls = 1
    /\ last.after = NoEntry
    /\ \E k \in Keys \ {last.key} : cache[k] # NoEntry

(***************************************************************************)
(* Claims about the configuration of the cache (specification              *)
(* SpecLifecycle).                                                         *)
(***************************************************************************)
\* C22 as stated: in every cache the client creates for a configuration
\* Validate accepts, the interval of the clean-up sweep is shorter than the
\* TTL of the entries.
C22_SweepShorterThanTTL ==
    (validateRet = "nil" /\ cfCli # NoClient)
        => cfCli.cache.CleanWindow < cfCli.cache.LifeWindow

Concurrent ==
    /\ flight.kind # Nil
    /\ \A w \in Resolvers : flight.res[w].state = "returned"
    /\ flight.together

FlightCalls == Cardinality({w \in Resolvers : flight.res[w].called})

FlightFetched ==
    {flight.res[w].fetched : w \in {v \in Resolvers : flight.res[v].fetched # NoObject}}

\* what the claim says of the calls, the results and the cache
FlightOutcome ==
    /\ FlightCalls >= 1 /\ FlightCalls <= MaxResolvers
    /\ \A w \in Resolvers :
          flight.res[w].err = "" /\ flight.res[w].obj \in FlightFetched
    /\ flight.after # NoEntry
    /\ \E o \in FlightFetched : flight.after.data = serialize(o).data

RECURSIVE Decimal(_)
Decimal(s) ==
    IF s = <<>> THEN 0
    ELSE Decimal(SubSeq(s, 1, Len(s) - 1)) * 10 + DigitValue(s[Len(s)])

\* a port: decimal digits, at least one, denoting a 16 bit number
ValidPort(piece) ==
    /\ piece # <<>>
    /\ \A i \in 1..Len(piece) : DigitValue(piece[i]) >= 0
    /\ Decimal(piece) <= 65535

TagsOf(info) ==
    IF /\ "log_config" \in DOMAIN info.Properties
       /\ info.Properties["log_config"].t = "object"
       /\ "tags" \in DOMAIN info.Properties["log_config"].members
       /\ info.Properties["log_config"].members["tags"].t = "object"
    THEN [parsed |-> TRUE, tags |-> info.Properties["log_config"].members["tags"].members]
    ELSE [parsed |-> FALSE, tags |-> <<>>]

AttributesKept ==
    /\ run.written \subseteq DOMAIN resource
    /\ \A k \in DOMAIN run.before :
          /\ k \in DOMAIN resource
          /\ k \notin run.written => resource[k] = run.before[k]

\* C31 as stated: when a lookup of processResource has failed after
\* attributes were written, processResource returns the error and the
\* attributes written before the failure remain on the resource.
C31_NoRollback ==
    (Returned /\ run.failed /\ run.written # {})
        => /\ run.ret = "err"
           /\ AttributesKept

\* C31, the part that holds: whatever processResource returns, the keys it
\* has written stay on the resource beside the attributes it found.
C31_AttributesRemain ==
    run.pass >= 1 => AttributesKept

\* C31: processResource has returned an error with the application's keys
\* on the resource
C31_ErrorAfterWrites ==
    /\ Returned /\ run.ret = "err" /\ run.path = "app"
    /\ AppNameKey \in run.written
    /\ AttributesKept
    /\ run.calls["space"] + run.calls["org"] >= 1

(***************************************************************************)
(* The client over a store that holds bytes deserialize refuses.  No call  *)
(* of the client writes such bytes (C32_EntriesDecode): cache.Set is given *)
(* the output of serialize, under a key that carries the type.  The entry  *)
(* is a fault of the store, present when the resolves begin; it shows what *)
(* the else branch of getApp / getSpace / getOrg does with it.             *)
(***************************************************************************)
\* bytes that are not the gob encoding of a `kind`: nothing, an encoding cut
\* short, the encoding of a value of another type
UndecodableData(kind, id) ==
    {<<>>, SubSeq(serialize(CfObject(kind, id, 1)).data, 1, 2)}
        \cup {serialize(CfObject(k, id, 1)).data : k \in Kinds \ {kind}}

InitDecode ==
    /\ \E ttl \in 0..MaxTTL : config = [Extract |-> defaultExtract, CacheTTL |-> ttl]
    /\ now = 0
    /\ cleanDue = FALSE
    /\ lastClean = -1
    /\ \E kind \in Kinds, id \in IDs :
          \E data \in UndecodableData(kind, id) :
             cache = [k \in Keys |-> IF k = objCacheName(kind, id)
                                     THEN [data |-> data, ts |-> 0]
                                     ELSE NoEntry]
    /\ platform = [k \in Keys |-> 1]
    /\ changes = 0
    /\ stored = [k \in Keys |-> NoStored]
    /\ last = NoCall
    /\ InitProc
    /\ InitStarted
    /\ workers = <<>>
    /\ InitOther

SpecDecode == InitDecode /\ [][Next]_vars

(***************************************************************************)
(* Claims about entries that do not decode (specifications Spec and        *)
(* SpecDecode).                                                            *)
(***************************************************************************)
\* the entry is there and deserialize returns an error for it
Undecodable(entry, kind) ==
    entry # NoEntry /\ deserialize(entry.data, kind).err # ""

\* every entry the client has written decodes (specification Spec)
C32_EntriesDecode ==
    \A kind \in Kinds, id \in IDs : ~Undecodable(cache[objCacheName(kind, id)], kind)

C32_ResolvedAfterExpiry ==
    /\ Resolved /\ last.err = "" /\ last.calls = 1
    /\ lastClean >= 0
    /\ cache[last.key] # NoEntry
    /\ ~Undecodable(cache[last.key], last.kind)
    /\ \A k \in Keys \ {last.key} : cache[k] = NoEntry /\ stored[k] = NoStored

(***************************************************************************)
(* Claims about an app identity attribute that cannot be used              *)
(* (specification SpecEnrich).                                             *)
(***************************************************************************)
\* the resource came with an app identity attribute that is empty or is not
\* a string
UnusableAppID ==
    /\ run.pass >= 1
    /\ AppIDAttributeKeyAssociation \in DOMAIN run.before
    /\ IF run.before[AppIDAttributeKeyAssociation][1] = "Str"
       THEN run.before[AppIDAttributeKeyAssociation][2] = ""
       ELSE TRUE

\* the resource as it would be without the app identity attribute
WithoutAppID(attrs) ==
    [k \in DOMAIN attrs \ {AppIDAttributeKeyAssociation} |-> attrs[k]]

\* C33: an app identity attribute that is present but empty or not a string
\* counts as absent.  No application is fetched, no cloudfoundry.app.* key is
\* written and the attribute stays as it is; the resource goes the way the
\* same resource without the attribute goes: the space path when it has a
\* space id and Extract.Metadata.Space is set, resolving the space by that
\* id, and otherwise no path at all, returning nil with nothing looked up
\* and nothing written.
C33_UnusableAppIDIsAbsent ==
    UnusableAppID
        => LET sid == getSpaceID(WithoutAppID(run.before))
           IN  /\ run.calls["app"] = 0
               /\ run.written \cap (GroupKeys("app") \cup AppStateLifecycleKeys
                                      \cup AppDatesKeys) = {}
               /\ AppIDAttributeKeyAssociation \in DOMAIN resource
               /\ resource[AppIDAttributeKeyAssociation]
                     = run.before[AppIDAttributeKeyAssociation]
               /\ run.path \in {"none", "space"}
               /\ pc # "processResource"
                     => (run.path = "space" <=> (sid # "" /\ config.Extract.Space))
               /\ spaceID \in {"", sid}
               /\ run.path = "none"
                     => /\ resource = run.before
                        /\ run.gets = 0
                        /\ run.written = {}
                        /\ Returned => run.ret = "nil"

\* C33 witness: a resource with an empty app id and a space id has got the
\* space's name, with no application fetched.
C33_Witness ==
    /\ UnusableAppID
    /\ run.before[AppIDAttributeKeyAssociation] = Str("")
    /\ Returned /\ run.ret = "nil" /\ run.path = "space"
    /\ run.calls["app"] = 0 /\ run.calls["space"] = 1
    /\ cfAttrNSPrefix \o "space.name" \in run.written
    /\ spaceID = getSpaceID(run.before)

\* C33: a resource whose app id is a number has been returned as it came
C33_NonStringReturned ==
    /\ UnusableAppID
    /\ run.before[AppIDAttributeKeyAssociation][1] # "Str"
    /\ Returned /\ run.ret = "nil" /\ run.path = "none"
    /\ resource = run.before

(***************************************************************************)
(* Claims about Shutdown (specification SpecLifecycle).                    *)
(***************************************************************************)
\* C34 as stated: Shutdown returns nil without faulting in every lifecycle
\* state: Start never called, Start failed, Start succeeded, Shutdown
\* already called.
C34_ShutdownSafe ==
    shutdownRet \in {"", "nil"}

\* C34, the part that holds: once Start has been called, whatever it
\* returned, Shutdown returns nil, any number of times.
C34_ShutdownSafeAfterStart ==
    shutdownRet = "panic" => (startRet = "" /\ cancel = Nil)

\* C34: Shutdown has returned nil after a Start that failed
C34_ShutdownAfterFailedStart ==
    /\ startRet = "err"
    /\ shutdownRet = "nil"
    /\ "startCtx" \in done

(***************************************************************************)
(* Claims about the observer's goroutines (specifications SpecSync and     *)
(* SpecSyncFair).                                                          *)
(***************************************************************************)
\* every goroutine ListEndpoints has launched has run
Settled == pending = {} /\ hist.latest # NilMap

\* the snapshots of the calls of ListEndpoints that have returned
Snapshots ==
    {MakeMap(listers[l].infos) : l \in {k \in Listers : listers[k].state = "returned"}}

\* C35 (as stated): once every update ListEndpoints has launched has run,
\* the container cache is the snapshot of the most recent call of
\* ListEndpoints, never that of an older one.
C35_CacheIsLatest == Settled => g.containers = hist.latest

\* C35 (what holds): once every update has run, the container cache is the
\* snapshot of one of the calls that have returned.
C35_CacheIsASnapshot == Settled => g.containers \in Snapshots

\* Two calls have returned, their updates have run, and the cache holds the
\* snapshot of the older call.
C35_StaleSnapshot ==
    /\ Settled
    /\ \A l \in Listers : listers[l].state = "returned"
    /\ g.containers # hist.latest
    /\ g.containers \in Snapshots

\* the app id App is asked for by the lister at the head of its list
Asked(lister) == InfoToAppID(Head(lister.todo).info).id

\* lister l returns from a platform call in this step
Fetched(l) == listers[l].state = "fetch" /\ listers'[l].state # "fetch"

\* C36 (as stated): between two runs of SyncApps at most one platform fetch
\* is made per app id, however many calls of App ask for it.
C36_OneFetch == \A id \in AppGUIDs : hist.fetches[id] <= 1

\* C36 (amended): App holds g.appMu from its look into the app cache to its
\* return.  It fetches an application only when the cache does not hold
\* it; a fetch that succeeds stores it, a fetch that fails leaves the cache
\* as it was, so that between two runs of SyncApps at most one fetch per
\* app id succeeds and none is made after it; and no other goroutine
\* changes the app cache while App is waiting for the platform.
C36_OneStoredFetch ==
    [][/\ \A id \in AppGUIDs : hist.stores'[id] <= 1
       /\ \A l \in Listers :
             Fetched(l) =>
                /\ Asked(listers[l]) \notin DOMAIN apps
                /\ hist.stores[Asked(listers[l])] = 0
                /\ \/ apps' = apps
                   \/ apps' = (Asked(listers[l]) :>
                                  Upstream("app", Asked(listers[l]), platform)) @@ apps
       /\ (appMu # Nil /\ appMu' # Nil) => apps' = apps]_vars

\* Two calls of App have asked for the application g1 with no SyncApps
\* between them that fetched it: one fetch was made, it was stored, and the
\* other call was served from the cache.
C36_Witness ==
    /\ \A l \in Listers :
          /\ listers[l].state = "returned"
          /\ "h1" \in DOMAIN listers[l].infos
    /\ hist.fetches["g1"] = 1
    /\ hist.stores["g1"] = 1
    /\ hist.lastSync.fetched = 0
    /\ "g1" \in DOMAIN apps

\* A call of App waits for g.appMu while another one, asking for the same
\* application, is waiting for the platform.
C36_Waiting ==
    /\ listers[1].state = "fetch"
    /\ listers[2].state = "loop"
    /\ Asked(listers[1]) = Asked(listers[2])

\* A fetch failed, nothing was stored, and a later call of App fetched the
\* same application again.
C36_FetchedAgain ==
    /\ hist.fetches["g1"] = 2
    /\ hist.stores["g1"] = 1
    /\ "g1" \in DOMAIN apps

\* this step is a run of SyncApps, from g.appMu.Lock() to its return
SyncStep ==
    \/ starter.state = "Lock" /\ starter'.state = "idle"
    \/ task.state = "syncing" /\ task'.state = "waiting"

\* the containers that run has read from the container cache
SyncRead == IF starter'.state # starter.state THEN starter.containers.m
            ELSE task.containers.m

\* the app ids of a map of containers
AppIDsOf(m) == {InfoToAppID(m[h]).id : h \in DOMAIN m}

\* C37: a run of SyncApps that succeeds leaves in the app cache exactly one
\* entry per distinct app id among the containers it has read from the
\* container cache, each fetched once in that run, and nothing else; a run
\* that fails returns the error and leaves only the applications it fetched
\* before the failure, not the previous content.
C37_SyncAppsRebuilds ==
    [][(SyncStep /\ ~hist'.panicked) =>
          LET ids == AppIDsOf(SyncRead)
              sync == hist'.lastSync
          IN  IF sync.err = ""
              THEN /\ \A h \in DOMAIN SyncRead : InfoToAppID(SyncRead[h]).err = ""
                   /\ DOMAIN apps' = ids
                   /\ \A id \in ids : apps'[id] = Upstream("app", id, platform)
                   /\ sync.fetched = Cardinality(ids)
              ELSE /\ DOMAIN apps' \subseteq ids \ {""}
                   /\ DOMAIN apps' # ids
                   /\ sync.fetched = Cardinality(DOMAIN apps')
                         + (IF sync.err = "error fetching application" THEN 1 ELSE 0)]_vars

\* The task has run SyncApps on two containers of one application, the only
\* snapshot there has been: one fetch, one entry.
C37_Witness ==
    /\ hist.lastSync = [who |-> "task", err |-> "", fetched |-> 1]
    /\ listers[1].state = "returned"
    /\ listers[2].state = "idle"
    /\ pending = {}
    /\ g.containers = MakeMap(listers[1].infos)
    /\ Cardinality(DOMAIN g.containers.m) = 2
    /\ DOMAIN apps = {"g1"}
    /\ task.state = "waiting"

\* A run over the containers of two applications failed at the second
\* fetch: the cache holds the first application only.
C37_FailedPartway ==
    /\ hist.lastSync.err = "error fetching application"
    /\ hist.lastSync.fetched = 2
    /\ Cardinality(DOMAIN apps) = 1
    /\ hist.stores = [id \in AppGUIDs |-> 0]

\* A run failed on a container with no app id.
C37_NoAppID ==
    /\ hist.lastSync.err = "could not find app_id"
    /\ apps = <<>>

\* A run has dropped an application: the cache held two, the containers it
\* read belong to one.
C37_EntryGone ==
    /\ hist.lastSync = [who |-> "task", err |-> "", fetched |-> 1]
    /\ \A l \in Listers : listers[l].state = "returned"
    /\ Cardinality(AppIDsOf(listers[1].infos) \cup AppIDsOf(listers[2].infos)) = 2
    /\ pending = {}
    /\ Cardinality(DOMAIN apps) = 1
    /\ Cardinality(AppIDsOf(g.containers.m)) = 1

\* A run is waiting for g.appMu with containers that the container cache no
\* longer holds: it will rebuild the app cache from what it has read.
C37_CacheMovedOn ==
    /\ task.state = "syncing"
    /\ appMu # Nil
    /\ task.containers # g.containers

\* the periodic task is in its loop
TaskAlive == task.state \in {"waiting", "syncing"}

\* C38 (as stated): the periodic task runs while the context of the Start
\* that launched it is live; it has not returned unless that context has
\* been cancelled.
C38_RunsWhileLaunchingContextLive ==
    task.state = "exited" => hist.launchCtx \in cancelled

\* C38 (as stated): after Shutdown the task runs no further SyncApps; it
\* takes no tick once the context of the last Start has been cancelled.
C38_NoSyncAfterShutdown ==
    [][(task.state = "waiting" /\ task'.state = "syncing") =>
          g.ctx \notin cancelled]_vars

\* C38 (what holds): over all the calls of Start at most one periodic task
\* is started.
C38_OneTask ==
    /\ hist.launched <= 1
    /\ g.once <=> hist.launched = 1
    /\ task.state # "none" <=> hist.launched = 1

\* C38 (what holds): a run of SyncApps that fails does not stop the task; it
\* goes back to its select.
C38_FailureDoesNotStop ==
    [][(task.state = "syncing" /\ task' # task /\ ~hist'.panicked) =>
          task'.state = "waiting"]_vars

\* C38 (what holds): when the context of the last Start has been cancelled,
\* the task returns in the end, unless a later Start replaces the context
\* or the process has ended with a panic.
C38_ExitsAfterShutdown ==
    (TaskAlive /\ g.ctx \in cancelled)
        ~> (task.state = "exited" \/ g.ctx \notin cancelled \/ hist.panicked)

\* Start, Start, Shutdown: the task has returned although the context of
\* the Start that launched it was never cancelled.
C38_ExitedWithLiveContext ==
    /\ task.state = "exited"
    /\ hist.launchCtx = "ctx1"
    /\ cancelled = {"ctx2"}

\* The task is running SyncApps again after a run of it has failed.
C38_TickAfterFailure ==
    /\ task.state = "syncing"
    /\ hist.lastSync.who = "task"
    /\ hist.lastSync.err # ""

\* A second Start has failed to build its client and left g.cf nil; the
\* next platform call of the task or of App has dereferenced it.
C38_NilClient ==
    /\ hist.panicked
    /\ g.cf = Nil
    /\ hist.launched = 1

====
